---- MODULE Spec2Model ----
(***************************************************************************)
(* A model of adobe/git-server: the repository resolver, the ref/path      *)
(* parser, the git access layer, the archive producer with its on-disk     *)
(* cache, and the request handlers' error propagation.                     *)
(*                                                                         *)
(* Strings are sequences of one-character strings, so that prefixes,       *)
(* splitting on "/" and character classes are computed, not assumed.       *)
(***************************************************************************)
EXTENDS Integers, Sequences, FiniteSets, TLC

VARIABLES
    \* ---- repository resolver (lib/utils.js, lib/xferHandler.js)
    owner,          \* req.params.owner
    repo,           \* req.params.repo
    virtualRepos,   \* options.virtualRepos, a set of <<owner, repo>> mounts
    repPath,        \* result of resolveRepositoryPath, or NoPath
    xferRepPath,    \* directory handed to the spawned git process, or NoPath
    \* ---- the repository on disk, as the git access layer reads it
    bare,           \* TRUE when the directory is itself a bare repository
    head,           \* HEAD: [sym |-> TRUE, target |-> branch] or [sym |-> FALSE, target |-> oid]
    branches,       \* refs/heads: branch name -> oid, NoOid when the branch does not exist
    tags,           \* refs/tags: tag name -> oid (commit or tag object), NoOid when absent
    commits,        \* commit oid -> [tree |-> path -> blob oid or NoOid, parent |-> oid or NoOid]
    tagObjects,     \* annotated tag oid -> [object |-> oid]
    blobStore,      \* oids of the blobs in the object database
    worktree,       \* path -> content of the file in the working directory, NoFile when absent
    index,          \* path -> blob oid staged in the index, NoOid when not staged
    ignored,        \* paths matched by .gitignore
    \* ---- the last call into the git access layer and its outcome
    call,
    \* ---- archive producer (lib/archiveHandler.js)
    slots,          \* the requests that may be in flight at the same time
    requests,       \* slot -> the archive request handled there and its position
    cacheDir,       \* CACHE_DIR: file name -> [bytes, len], len counted in chunks
    clock,          \* the time stamped on archive entries, advanced by every build
    started,        \* number of archive requests received so far
    prevDone,       \* the archive request that completed last
    \* ---- a request in the contents, html or transfer handler
    hreq,           \* [kind, ref, pc, refName, err, responses, status]
    \* ---- a request to one of the API or redirect routes (lib/app.js)
    api,            \* the request, its position and the response sent for it
    trees,          \* tree oid -> sequence of tree entries [path, type, oid]
    \* ---- server life cycle (lib/server.js)
    serverState,    \* [httpSrv, httpsSrv]: listener ids, NoSrv when not set
    listeners,      \* the listeners currently bound: [id, scheme, port, listen]
    returned        \* what the last start() or stop() returned

resolverVars == <<owner, repo, virtualRepos, repPath, xferRepPath>>

gitVars == <<bare, head, branches, tags, commits, tagObjects, blobStore,
             worktree, index, ignored>>

archiveVars == <<slots, requests, cacheDir, clock, started, prevDone>>

handlerVars == <<hreq>>

apiVars == <<api, trees>>

lifecycleVars == <<serverState, listeners, returned>>

serverVars == <<archiveVars, handlerVars, apiVars, lifecycleVars>>

vars == <<resolverVars, gitVars, call, serverVars>>

(***************************************************************************)
(* Generic string helpers                                                  *)
(***************************************************************************)

\* all strings over alphabet of length at most n
StrUpTo(alphabet, n) == UNION {[1..k -> alphabet] : k \in 0..n}

\* JS String.prototype.startsWith
StartsWith(s, p) == Len(p) <= Len(s) /\ SubSeq(s, 1, Len(p)) = p

\* JS String.prototype.substr(from) with a 0-based index
SubstrFrom(s, from) == SubSeq(s, from + 1, Len(s))

RECURSIVE SplitAcc(_, _, _)
SplitAcc(s, cur, acc) ==
    IF s = <<>> THEN Append(acc, cur)
    ELSE IF Head(s) = "/" THEN SplitAcc(Tail(s), <<>>, Append(acc, cur))
    ELSE SplitAcc(Tail(s), Append(cur, Head(s)), acc)

\* s.split('/')
Split(s) == SplitAcc(s, <<>>, <<>>)

RECURSIVE Flatten(_)
Flatten(seqs) == IF seqs = <<>> THEN <<>> ELSE Head(seqs) \o Flatten(Tail(seqs))

(***************************************************************************)
(* Repository resolver                                                     *)
(***************************************************************************)

MaxNameLen == 3

\* the characters owner and repo are drawn from: a safe letter, the dot,
\* the path separator and one more unsafe character
NameChars == {"a", ".", "/", "~"}

\* the inputs of the resolver's own test, longer than MaxNameLen
ExtraNames == { <<".", ".", "/", ".", ".">>,
                <<"a", "/", ".", ".">>,
                <<"a", "/", "a", "/", ".">> }

Names == StrUpTo(NameChars, MaxNameLen) \cup ExtraNames

\* options.repoRoot, an absolute path
repoRoot == <<"/", "r", "/", "g">>

\* the one virtual repository that may be configured, and its path
VirtualMount == [owner |-> <<"a">>, repo |-> <<"a", "a">>, path |-> <<"/", "v">>]

\* no path computed yet
NoPath == << <<"?">> >>

\* [A-Za-z0-9_.-]
SafeGitNameChars ==
    { "a","b","c","d","e","f","g","h","i","j","k","l","m",
      "n","o","p","q","r","s","t","u","v","w","x","y","z",
      "A","B","C","D","E","F","G","H","I","J","K","L","M",
      "N","O","P","Q","R","S","T","U","V","W","X","Y","Z",
      "0","1","2","3","4","5","6","7","8","9","_",".","-" }

IsAbsolute(s) == Len(s) > 0 /\ s[1] = "/"

RECURSIVE NormalizeSegs(_, _)
NormalizeSegs(segs, acc) ==
    IF segs = <<>> THEN acc
    ELSE LET h == Head(segs) IN
         IF h = <<>> \/ h = <<".">> THEN NormalizeSegs(Tail(segs), acc)
         ELSE IF h = <<".", ".">>
              THEN NormalizeSegs(Tail(segs),
                                 IF acc = <<>> THEN acc ELSE SubSeq(acc, 1, Len(acc) - 1))
              ELSE NormalizeSegs(Tail(segs), Append(acc, h))

\* path.resolve(...args) for an argument list that holds an absolute path:
\* the arguments from the last absolute one on, joined and normalized.
\* The result is the list of the path's segments below "/".
pathResolve(args) ==
    LET abs == {i \in 1..Len(args) : IsAbsolute(args[i])}
        from == CHOOSE i \in abs : \A j \in abs : j <= i
    IN  NormalizeSegs(Flatten([k \in 1..(Len(args) - from + 1) |-> Split(args[from + k - 1])]), <<>>)

sanitize_KeepDots(s) ==
    [i \in 1..Len(s) |-> IF s[i] \in SafeGitNameChars THEN s[i] ELSE "-"]

sanitize(s) ==
    IF s = <<".">> \/ s = <<".", ".">>
    THEN [i \in 1..Len(s) |-> "-"]
    ELSE [i \in 1..Len(s) |-> IF s[i] \in SafeGitNameChars THEN s[i] ELSE "-"]

HasVirtualRepo(vr, o, r) == <<o, r>> \in vr

resolveRepositoryPath(vr, o, r) ==
    IF HasVirtualRepo(vr, o, r)
    THEN pathResolve(<<VirtualMount.path>>)
    ELSE pathResolve(<<repoRoot, sanitize(o), sanitize(r)>>)

\* lib/xferHandler.js: the directory appended to the git command line
xferRepositoryPath(vr, o, r) == pathResolve(<<repoRoot, o, r>>)

(***************************************************************************)
(* The repository on disk                                                  *)
(***************************************************************************)

\* length of a full SHA-1 in hex
FullShaLen == 40

HexChars == {"0","1","2","3","4","5","6","7","8","9","a","b","c","d","e","f"}

Rep(c, n) == [i \in 1..n |-> c]

\* no object / no such ref
NoOid == <<>>

\* the oid of the n-th commit created in the repository; the first two share
\* their first seven hex digits
CommitOidOf(n) ==
    IF n = 2 THEN Rep("a", 7) \o Rep("b", FullShaLen - 7)
    ELSE Rep(<<"a", "b", "c", "d", "e", "f">>[n], FullShaLen)

\* file contents and the oid of the blob holding them (git hash-object);
\* the blob of "x" shares its first seven hex digits with the third commit
Contents == {"x", "y"}
NoFile == "-"
BlobOid(content) ==
    IF content = "x" THEN Rep("c", 7) \o Rep("1", FullShaLen - 7)
    ELSE Rep("2", FullShaLen)

\* the one annotated tag object
TagObjectOid == Rep("9", FullShaLen)

HEAD == <<"H", "E", "A", "D">>

Paths == { <<"f">> }

\* branch names: "m" stands for main; one name contains "/" and one reads
\* like a shortened oid of the third commit
HexName == SubSeq(CommitOidOf(3), 1, 7)
Main == <<"m">>
Master == <<"m", "a", "s", "t", "e", "r">>
BranchNames == { Main, Master, <<"m", "/", "x">>, <<"x">>, HexName }

\* tag names: "v" and "x" lightweight, "t" annotated
TagNames == { <<"v">>, <<"t">>, <<"x">> }

EmptyTree == [p \in Paths |-> NoOid]

NoTags == [t \in TagNames |-> NoOid]

\* outcome of a call that may throw
Ok(v) == [ok |-> TRUE, err |-> "", val |-> v]
NotFoundError == [ok |-> FALSE, err |-> "NotFoundError", val |-> NoOid]

NoCall == [op |-> "none"]

\* the refs stored in the repository
RefsHeads == {b \in BranchNames : branches[b] # NoOid}
RefsTags == {t \in TagNames : tags[t] # NoOid}

\* git.listBranches / git.listTags read below <dir>/.git, which a bare
\* repository does not have
listBranches == IF bare THEN {} ELSE RefsHeads
listTags == IF bare THEN {} ELSE RefsTags

\* JS undefined, where a ref name is expected
Undefined == <<"undefined">>

\* every object id in the object database
AllOids == DOMAIN commits \cup DOMAIN tagObjects \cup blobStore

(***************************************************************************)
(* Git access layer (lib/git.js on isomorphic-git)                         *)
(***************************************************************************)

isValidSha(str) ==
    Len(str) = FullShaLen /\ \A i \in 1..Len(str) : str[i] \in HexChars

\* git.resolveRef({ fs, dir, ref }): a full SHA is returned as it is; every
\* other name is looked up below <dir>/.git, which a bare repository does
\* not have; refs/tags is searched before refs/heads; the oid stored in the
\* ref is returned unpeeled.
resolveRef(ref) ==
    IF ref = Undefined
    THEN [ok |-> FALSE, err |-> "MissingParameterError", val |-> NoOid]
    ELSE IF isValidSha(ref) THEN Ok(ref)
    ELSE IF bare THEN NotFoundError
    ELSE IF ref = HEAD
         THEN IF ~head.sym THEN Ok(head.target)
              ELSE IF branches[head.target] # NoOid THEN Ok(branches[head.target])
              ELSE NotFoundError
    ELSE IF ref \in listTags THEN Ok(tags[ref])
    ELSE IF ref \in listBranches THEN Ok(branches[ref])
    ELSE NotFoundError

\* git.expandOid({ fs, dir, oid }): the one object id that starts with short
expandOid(short) ==
    LET matching == {o \in AllOids : StartsWith(o, short)} IN
    IF ~bare /\ Cardinality(matching) = 1
    THEN Ok(CHOOSE o \in matching : TRUE)
    ELSE NotFoundError

determineRefPathName_Shortest(refPathName) ==
    LET matchingRefs == {ref \in listBranches \cup listTags :
                            StartsWith(refPathName, ref \o <<"/">>)}
    IN  IF matchingRefs = {} THEN [found |-> FALSE]
        ELSE LET matchingRef == CHOOSE a \in matchingRefs :
                                    \A b \in matchingRefs : Len(b) >= Len(a)
             IN  [found |-> TRUE, ref |-> matchingRef,
                  pathName |-> SubstrFrom(refPathName, Len(matchingRef))]

determineRefPathName(refPathName) ==
    LET matchingRefs == {ref \in listBranches \cup listTags :
                            StartsWith(refPathName, ref \o <<"/">>)}
    IN  IF matchingRefs = {} THEN [found |-> FALSE]
        ELSE LET matchingRef == CHOOSE a \in matchingRefs :
                                    \A b \in matchingRefs : Len(b) <= Len(a)
             IN  [found |-> TRUE, ref |-> matchingRef,
                  pathName |-> SubstrFrom(refPathName, Len(matchingRef))]

\* git.currentBranch({ fs, dir, fullname: false }): the branch HEAD names,
\* undefined when HEAD is detached; fails when HEAD cannot be read
currentBranch ==
    IF bare THEN NotFoundError
    ELSE IF head.sym THEN Ok(head.target) ELSE Ok(Undefined)

defaultBranch ==
    IF Main \in listBranches THEN Ok(Main)
    ELSE IF Master \in listBranches THEN Ok(Master)
    ELSE currentBranch

isCheckedOut_Expanding(ref) ==
    LET oidCurrent == resolveRef(HEAD)
        short == expandOid(ref)
        oid == IF resolveRef(ref).ok THEN resolveRef(ref) ELSE short
    IN  oidCurrent.ok /\ oid.ok /\ oidCurrent.val = oid.val

\* isCheckedOut that catches the failure of each lookup by itself and
\* compares what is left
isCheckedOut_CompareUnresolved(ref) ==
    (IF resolveRef(HEAD).ok THEN resolveRef(HEAD).val ELSE NoOid)
        = (IF resolveRef(ref).ok THEN resolveRef(ref).val ELSE NoOid)

isCheckedOut(ref) ==
    LET oidCurrent == resolveRef(HEAD)
        oid == resolveRef(ref)
    IN  oidCurrent.ok /\ oid.ok /\ oidCurrent.val = oid.val

resolveCommit_RefOnly(ref) == resolveRef(ref)

resolveCommit(ref) ==
    LET r == resolveRef(ref) IN
    IF r.ok \/ r.err # "NotFoundError" THEN r
    ELSE LET oid == expandOid(ref) IN
         IF ~oid.ok THEN r ELSE resolveRef(oid.val)

\* JS String.prototype.endsWith
EndsWith(s, suffix) ==
    Len(suffix) <= Len(s) /\ SubSeq(s, Len(s) - Len(suffix) + 1, Len(s)) = suffix

\* the words git.status answers with, without the leading "*" that marks a
\* difference between index and working directory
StatusWord ==
    [unmodified |-> <<"u","n","m","o","d","i","f","i","e","d">>,
     modified |-> <<"m","o","d","i","f","i","e","d">>,
     absent |-> <<"a","b","s","e","n","t">>,
     deleted |-> <<"d","e","l","e","t","e","d">>,
     added |-> <<"a","d","d","e","d">>,
     ignored |-> <<"i","g","n","o","r","e","d">>,
     undeleted |-> <<"u","n","d","e","l","e","t","e","d">>,
     undeletemodified |-> <<"u","n","d","e","l","e","t","e","m","o","d","i","f","i","e","d">>]

Star(s) == <<"*">> \o s

\* the blob of path in the tree of the commit HEAD resolves to, NoOid when
\* HEAD is unborn or the tree has no such entry
HeadTreeEntry(path) ==
    LET h == resolveRef(HEAD) IN
    IF h.ok /\ h.val \in DOMAIN commits THEN commits[h.val].tree[path] ELSE NoOid

\* git.status({ fs, dir, filepath }): compares the HEAD tree (H), the index
\* (I) and the working directory (W)
status(path) ==
    LET treeOid == HeadTreeEntry(path)
        H == treeOid # NoOid
        I == index[path] # NoOid
        W == worktree[path] # NoFile
        workdirOid == BlobOid(worktree[path])
    IN  IF path \in ignored THEN StatusWord.ignored
        ELSE IF ~H /\ ~W /\ ~I THEN StatusWord.absent
        ELSE IF ~H /\ ~W /\ I THEN Star(StatusWord.absent)
        ELSE IF ~H /\ W /\ ~I THEN Star(StatusWord.added)
        ELSE IF ~H /\ W /\ I
             THEN IF workdirOid = index[path] THEN StatusWord.added ELSE Star(StatusWord.added)
        ELSE IF H /\ ~W /\ ~I THEN StatusWord.deleted
        ELSE IF H /\ ~W /\ I THEN Star(StatusWord.deleted)
        ELSE IF H /\ W /\ ~I
             THEN IF workdirOid = treeOid THEN Star(StatusWord.undeleted) ELSE Star(StatusWord.undeletemodified)
        ELSE IF workdirOid = treeOid
             THEN IF workdirOid = index[path] THEN StatusWord.unmodified ELSE Star(StatusWord.unmodified)
             ELSE IF workdirOid = index[path] THEN StatusWord.modified ELSE Star(StatusWord.modified)

\* git.readObject({ fs, dir, oid, filepath }).oid: the entry of filepath in
\* the tree of the commit (or of the commit an annotated tag points at)
readObjectAtPath(oid, path) ==
    LET c == IF oid \in DOMAIN tagObjects THEN tagObjects[oid].object ELSE oid IN
    IF bare THEN NotFoundError
    ELSE IF c \in DOMAIN commits
         THEN IF commits[c].tree[path] # NoOid THEN Ok(commits[c].tree[path])
              ELSE NotFoundError
    ELSE IF c \in blobStore THEN [ok |-> FALSE, err |-> "ObjectTypeError", val |-> NoOid]
    ELSE NotFoundError

pathExists(path) == worktree[path] # NoFile

\* resolveBlob that writes the working directory file into the object
\* database whatever it is asked for
resolveBlobSteps_AlwaysWrites(ref, pathName, includeUncommitted) ==
    [res |-> IF ~resolveCommit(ref).ok THEN resolveCommit(ref)
             ELSE IF ~includeUncommitted
             THEN readObjectAtPath(resolveCommit(ref).val, pathName)
             ELSE IF pathExists(pathName) THEN Ok(BlobOid(worktree[pathName]))
             ELSE NotFoundError,
     wrote |-> pathExists(pathName)]

\* the outcome of resolveBlob together with whether it wrote the working
\* directory file into the object database (git.writeBlob)
resolveBlobSteps(ref, pathName, includeUncommitted) ==
    LET commitSha == resolveCommit(ref)
        st == status(pathName)
        committed == [res |-> readObjectAtPath(commitSha.val, pathName), wrote |-> FALSE]
        notFound == [res |-> NotFoundError, wrote |-> FALSE]
    IN  IF ~commitSha.ok THEN [res |-> commitSha, wrote |-> FALSE]
        ELSE IF ~includeUncommitted THEN committed
        ELSE IF EndsWith(st, StatusWord.unmodified) THEN committed
        ELSE IF EndsWith(st, StatusWord.absent) \/ EndsWith(st, StatusWord.deleted) THEN notFound
        ELSE IF EndsWith(st, StatusWord.added) /\ ~pathExists(pathName) THEN notFound
        ELSE IF pathExists(pathName)
             THEN [res |-> Ok(BlobOid(worktree[pathName])), wrote |-> TRUE]
        ELSE IF st = StatusWord.ignored THEN notFound
        ELSE [res |-> [ok |-> FALSE, err |-> "ENOENT", val |-> NoOid], wrote |-> FALSE]

resolveBlob_CommittedOnly(ref, pathName, includeUncommitted) ==
    resolveBlobSteps(ref, pathName, FALSE).res

resolveBlob(ref, pathName, includeUncommitted) ==
    resolveBlobSteps(ref, pathName, includeUncommitted).res

\* the bytes of a blob (git.readObject with format 'content')
ContentOf(oid) == CHOOSE c \in Contents : BlobOid(c) = oid

getRawContent(ref, pathName, includeUncommitted) ==
    LET oid == resolveBlob(ref, pathName, includeUncommitted) IN
    IF oid.ok THEN [ok |-> TRUE, err |-> "", val |-> ContentOf(oid.val)]
    ELSE [ok |-> FALSE, err |-> oid.err, val |-> NoFile]

\* the raw content handler: 200 with the blob's bytes, 404 "not found." on
\* NotFound, any other error is passed on
rawHandler(ref, pathName) ==
    LET includeUncommitted == isCheckedOut(ref)
        content == getRawContent(ref, pathName, includeUncommitted)
    IN  IF content.ok THEN [status |-> 200, body |-> content.val]
        ELSE IF content.err = "NotFoundError" THEN [status |-> 404, body |-> "not found."]
        ELSE [status |-> 500, body |-> content.err]

\* git.log({ fs, dir, ref }): the commits from the one ref resolves to back
\* to the root, newest first (the path argument is not used by the library)
RECURSIVE Ancestry(_)
Ancestry(oid) ==
    IF oid = NoOid \/ oid \notin DOMAIN commits THEN <<>>
    ELSE <<oid>> \o Ancestry(commits[oid].parent)

gitLog(ref) ==
    LET r == resolveRef(ref) IN
    IF ~r.ok THEN r
    ELSE Ok(Ancestry(IF r.val \in DOMAIN tagObjects THEN tagObjects[r.val].object ELSE r.val))

\* the loop of commitLog that filters the commits by path, from index i on
RECURSIVE filterCommits(_, _, _, _, _, _)
filterCommits(cs, path, i, lastSHA, lastCommit, filteredCommits) ==
    IF i > Len(cs) THEN filteredCommits
    ELSE LET c == cs[i]
             o == readObjectAtPath(c, path)
         IN  IF o.ok
             THEN IF i = Len(cs) THEN Append(filteredCommits, c)
                  ELSE IF o.val # lastSHA
                       THEN filterCommits(cs, path, i + 1, o.val, c,
                                IF lastSHA # NoOid THEN Append(filteredCommits, lastCommit)
                                ELSE filteredCommits)
                       ELSE filterCommits(cs, path, i + 1, lastSHA, c, filteredCommits)
             ELSE IF lastCommit # NoOid THEN Append(filteredCommits, lastCommit)
                  ELSE filteredCommits

commitLog(ref, path) ==
    LET first == gitLog(ref)
        oid == expandOid(ref)
        commitsOfRef == IF first.ok THEN first
                        ELSE IF ~oid.ok THEN first
                        ELSE gitLog(oid.val)
    IN  IF ~commitsOfRef.ok THEN commitsOfRef
        ELSE IF path # <<>>
             THEN Ok(filterCommits(commitsOfRef.val, path, 1, NoOid, NoOid, <<>>))
             ELSE commitsOfRef

(***************************************************************************)
(* Archive producer (lib/archiveHandler.js)                                *)
(***************************************************************************)

Formats == {"zip", "tar.gz"}

\* the number of chunks an archive is written to its cache file in
ArchiveChunks == 2

\* `${owner}-${repoName}-${serveUncommitted ? 'SNAPSHOT' : commitSha}.zip|.tgz`,
\* for the one owner and repository of the model
archiveFileName_AlwaysSha(serveUncommitted, commitSha, archiveFormat) ==
    << commitSha, IF archiveFormat = "zip" THEN ".zip" ELSE ".tgz" >>

archiveFileName(serveUncommitted, commitSha, archiveFormat) ==
    << IF serveUncommitted THEN <<"SNAPSHOT">> ELSE commitSha,
       IF archiveFormat = "zip" THEN ".zip" ELSE ".tgz" >>

useCachedArchive_Never(serveUncommitted, exists) == FALSE

\* the cache check: !serveUncommitted && await fse.pathExists(archiveFilePath)
useCachedArchive(serveUncommitted, exists) == ~serveUncommitted /\ exists

\* the bytes of a freshly built archive: the entries of the commit's tree or
\* of the working directory, each stamped with the time of the build
archiveGitTree(commitSha, now) ==
    [entries |-> [p \in Paths |->
                    IF commits[commitSha].tree[p] = NoOid THEN NoFile
                    ELSE ContentOf(commits[commitSha].tree[p])],
     date |-> now]

archiveWorkingDir(now) ==
    [entries |-> [p \in Paths |-> IF p \in ignored THEN NoFile ELSE worktree[p]],
     date |-> now]

NoBytes == [entries |-> [p \in Paths |-> NoFile], date |-> -1]

IdleReq ==
    [pc |-> "idle", ref |-> <<>>, fmt |-> "", serveUncommitted |-> FALSE,
     commitSha |-> NoOid, bytes |-> NoBytes, pos |-> 0,
     resp |-> [status |-> 0, bytes |-> NoBytes, len |-> 0, fromCache |-> FALSE]]

ErrorResponse(code) == [status |-> code, bytes |-> NoBytes, len |-> 0, fromCache |-> FALSE]

NoneDone == [ref |-> <<>>, fmt |-> "", resp |-> ErrorResponse(0)]

ArchiveIdle ==
    /\ slots = {}
    /\ requests = <<>>
    /\ cacheDir = <<>>
    /\ clock = 0
    /\ started = 0
    /\ prevDone = NoneDone

(***************************************************************************)
(* Request handlers and the propagation of their failures                  *)
(***************************************************************************)

HandlerKinds == {"contents", "html", "xfer"}

IdleHandler ==
    [kind |-> "", ref |-> Undefined, pc |-> "idle", refName |-> Undefined,
     err |-> "", responses |-> 0, status |-> 0]

\* res.status(code)...send(): one more response for the request
Respond(h, code) ==
    [h EXCEPT !.pc = "done", !.responses = h.responses + 1, !.status = code]

\* next(err): express' final handler answers 500
NextErr(h, err) ==
    [h EXCEPT !.pc = "done", !.err = err, !.responses = h.responses + 1, !.status = 500]

\* an exception escapes the async handler: its promise is rejected, which
\* express 4 does not observe; nothing is sent
Reject(h, err) == [h EXCEPT !.pc = "rejected", !.err = err]

\* contentHandler from resolveCommit on: 200 with the JSON of the object,
\* 404 on NotFoundError, next(err) otherwise
contentHandlerResolve(h, path) ==
    LET commitOid == resolveCommit(h.refName)
        obj == readObjectAtPath(commitOid.val, path)
    IN  IF commitOid.ok /\ obj.ok THEN Respond(h, 200)
        ELSE LET err == IF ~commitOid.ok THEN commitOid.err ELSE obj.err IN
             IF err = "NotFoundError" THEN [Respond(h, 404) EXCEPT !.err = err]
             ELSE NextErr(h, err)

\* htmlHandler from resolveCommit on: a failure of resolveCommit goes to
\* next(err), a failure of resolveObject is turned into null and answered 404
htmlHandlerResolve(h, path) ==
    LET commitOid == resolveCommit(h.refName)
        blobOrTree == readObjectAtPath(commitOid.val, path)
    IN  IF ~commitOid.ok THEN NextErr(h, commitOid.err)
        ELSE IF ~blobOrTree.ok THEN [Respond(h, 404) EXCEPT !.err = "NotFoundError"]
        ELSE Respond(h, 200)

(***************************************************************************)
(* Idle values of the components a specification does not exercise         *)
(***************************************************************************)

\* a freshly initialised non-bare repository: unborn branch "m", no objects
GitEmpty ==
    /\ bare = FALSE
    /\ head = [sym |-> TRUE, target |-> <<"m">>]
    /\ branches = [b \in BranchNames |-> NoOid]
    /\ tags = NoTags
    /\ commits = <<>>
    /\ tagObjects = <<>>
    /\ blobStore = {}
    /\ worktree = [p \in Paths |-> NoFile]
    /\ index = [p \in Paths |-> NoOid]
    /\ ignored = {}
    /\ call = NoCall

\* no API request received, no tree objects, no server started
Null == "null"
\* serverState.httpSrv = null: listeners are numbered from 1
NoSrv == 0
NoRequest == [route |-> "", pc |-> "idle", status |-> 0]
NoResult == [op |-> "", outcome |-> ""]
ApiIdle ==
    /\ api = NoRequest
    /\ trees = <<>>

LifecycleIdle ==
    /\ serverState = [httpSrv |-> NoSrv, httpsSrv |-> NoSrv]
    /\ listeners = {}
    /\ returned = NoResult

ServerIdle == ArchiveIdle /\ hreq = IdleHandler /\ ApiIdle /\ LifecycleIdle

ResolverIdle ==
    /\ owner = <<>>
    /\ repo = <<>>
    /\ virtualRepos = {}
    /\ repPath = NoPath
    /\ xferRepPath = NoPath

ResolverInit ==
    /\ GitEmpty
    /\ ServerIdle
    /\ owner \in Names
    /\ repo \in Names
    /\ virtualRepos \in {{}, {<<VirtualMount.owner, VirtualMount.repo>>}}
    /\ repPath = NoPath
    /\ xferRepPath = NoPath

\* a handler resolves the repository of its request
ResolveRepository ==
    /\ repPath = NoPath
    /\ repPath' = resolveRepositoryPath(virtualRepos, owner, repo)
    /\ UNCHANGED <<owner, repo, virtualRepos, xferRepPath, gitVars, call, serverVars>>

\* a Smart HTTP request /:owner/:repo.git/... reaches the transfer handler
XferRequest ==
    /\ xferRepPath = NoPath
    /\ owner # <<>> /\ repo # <<>>
    /\ xferRepPath' = xferRepositoryPath(virtualRepos, owner, repo)
    /\ UNCHANGED <<owner, repo, virtualRepos, repPath, gitVars, call, serverVars>>

ResolverNext == ResolveRepository \/ XferRequest

SpecResolver == ResolverInit /\ [][ResolverNext]_vars

RootSegs == pathResolve(<<repoRoot>>)

IsWithin(p, root) == Len(p) >= Len(root) /\ SubSeq(p, 1, Len(root)) = root

IsDescendant(p, root) == Len(p) > Len(root) /\ SubSeq(p, 1, Len(root)) = root

C9_XferUsesResolver ==
    xferRepPath # NoPath => xferRepPath = resolveRepositoryPath(virtualRepos, owner, repo)

(***************************************************************************)
(* Ref/path parser: determineRefPathName over varying sets of refs         *)
(***************************************************************************)

MaxRefPathLen == 5

\* the `<ref>/<path>` strings handed to the parser
RefPaths == StrUpTo({"m", "x", "/"}, MaxRefPathLen)

\* a repository with one commit and any set of branches and lightweight tags
RefPathInit ==
    /\ ResolverIdle
    /\ ServerIdle
    /\ bare = FALSE
    /\ head = [sym |-> TRUE, target |-> <<"m">>]
    /\ commits = (CommitOidOf(1) :> [tree |-> EmptyTree, parent |-> NoOid])
    /\ branches \in {b \in [BranchNames -> {NoOid, CommitOidOf(1)}] : b[Master] = NoOid}
    /\ tags \in {t \in [TagNames -> {NoOid, CommitOidOf(1)}] : t[<<"t">>] = NoOid}
    /\ tagObjects = <<>>
    /\ blobStore = {}
    /\ worktree = [p \in Paths |-> NoFile]
    /\ index = [p \in Paths |-> NoOid]
    /\ ignored = {}
    /\ call = NoCall

DetermineRefPathName ==
    /\ call = NoCall
    /\ \E S \in RefPaths :
         call' = [op |-> "determineRefPathName", arg |-> S,
                  res |-> determineRefPathName(S)]
    /\ UNCHANGED <<resolverVars, serverVars, gitVars>>

RefPathNext == DetermineRefPathName

SpecRefPath == RefPathInit /\ [][RefPathNext]_vars

\* the refs R such that S begins with R + "/"
MatchingRefs(S) ==
    {R \in RefsHeads \cup RefsTags : StartsWith(S, R \o <<"/">>)}

\* C4 (as stated): unresolved when no ref matches; otherwise the longest
\* matching ref, and the path is what follows the ref and its separating
\* "/", so the path has no leading "/".
C4_RefPathSplit ==
    call.op = "determineRefPathName" =>
        LET M == MatchingRefs(call.arg) IN
        /\ (M = {}) <=> ~call.res.found
        /\ call.res.found =>
              /\ call.res.ref \in M
              /\ \A R \in M : Len(R) <= Len(call.res.ref)
              /\ call.res.ref \o <<"/">> \o call.res.pathName = call.arg

\* C4 (amended): unresolved when no ref matches; otherwise the longest
\* matching ref, and the path is the rest of S after the ref, which still
\* begins with the separating "/".
C4_RefPathSplitKeepsSlash ==
    call.op = "determineRefPathName" =>
        LET M == MatchingRefs(call.arg) IN
        /\ (M = {}) <=> ~call.res.found
        /\ call.res.found =>
              /\ call.res.ref \in M
              /\ \A R \in M : Len(R) <= Len(call.res.ref)
              /\ call.res.ref \o call.res.pathName = call.arg
              /\ Head(call.res.pathName) = "/"

C4_Witness ==
    /\ call.op = "determineRefPathName"
    /\ call.arg = <<"m", "/", "x", "/", "m">>
    /\ {<<"m">>, <<"m", "/", "x">>} \subseteq RefsHeads
    /\ call.res.found
    /\ call.res.ref = <<"m", "/", "x">>
    /\ call.res.pathName = <<"/", "m">>

(***************************************************************************)
(* Ref resolution: isCheckedOut and resolveCommit over varying refs        *)
(***************************************************************************)

\* shortest shortened oid the tests ask for
MinPrefixLen == 7

PrefixLens == {MinPrefixLen, MinPrefixLen + 1, FullShaLen - 1, FullShaLen}

\* three commits in a line, the newest one carrying file "f"
ThreeCommits ==
    (CommitOidOf(1) :> [tree |-> EmptyTree, parent |-> NoOid]) @@
    (CommitOidOf(2) :> [tree |-> EmptyTree, parent |-> CommitOidOf(1)]) @@
    (CommitOidOf(3) :> [tree |-> [p \in Paths |-> BlobOid("y")], parent |-> CommitOidOf(2)])

\* the refs and shas a request may name
RefInputs ==
    BranchNames \cup TagNames \cup {HEAD, <<"z">>} \cup
    {SubSeq(o, 1, n) : o \in DOMAIN ThreeCommits \cup {TagObjectOid}, n \in PrefixLens}

RefsInit ==
    /\ ResolverIdle
    /\ ServerIdle
    /\ bare \in BOOLEAN
    /\ commits = ThreeCommits
    /\ tagObjects = (TagObjectOid :> [object |-> CommitOidOf(3)])
    /\ blobStore \in {{BlobOid("y")}, {BlobOid("x"), BlobOid("y")}}
    /\ branches \in {b \in [BranchNames -> {NoOid, CommitOidOf(1), CommitOidOf(3)}] :
                        /\ b[<<"m", "/", "x">>] = NoOid
                        /\ b[Master] = NoOid
                        /\ b[HexName] # CommitOidOf(3)}
    /\ tags \in {t \in [TagNames -> {NoOid, CommitOidOf(1), CommitOidOf(3), TagObjectOid}] :
                        /\ t[<<"v">>] \in {NoOid, CommitOidOf(3)}
                        /\ t[<<"t">>] \in {NoOid, TagObjectOid}
                        /\ t[<<"x">>] \in {NoOid, CommitOidOf(1)}}
    /\ head \in {[sym |-> TRUE, target |-> <<"m">>], [sym |-> TRUE, target |-> <<"x">>],
                 [sym |-> FALSE, target |-> CommitOidOf(1)],
                 [sym |-> FALSE, target |-> CommitOidOf(3)]}
    /\ worktree = [p \in Paths |-> NoFile]
    /\ index = [p \in Paths |-> NoOid]
    /\ ignored = {}
    /\ call = NoCall

\* a handler asks whether the requested ref is checked out
IsCheckedOutCall ==
    /\ call = NoCall
    /\ \E ref \in RefInputs :
         call' = [op |-> "isCheckedOut", arg |-> ref, res |-> isCheckedOut(ref)]
    /\ UNCHANGED <<resolverVars, serverVars, gitVars>>

\* a handler resolves the requested ref or sha to a commit
ResolveCommitCall ==
    /\ call = NoCall
    /\ \E ref \in RefInputs :
         call' = [op |-> "resolveCommit", arg |-> ref, res |-> resolveCommit(ref)]
    /\ UNCHANGED <<resolverVars, serverVars, gitVars>>

RefsNext == IsCheckedOutCall \/ ResolveCommitCall

SpecRefs == RefsInit /\ [][RefsNext]_vars

\* what the name means to git itself (rev-parse name^{commit}): HEAD, a tag,
\* a branch, or a full or shortened object id, annotated tags peeled
Peel(oid) == IF oid \in DOMAIN tagObjects THEN tagObjects[oid].object ELSE oid

HeadOid ==
    IF ~head.sym THEN head.target ELSE branches[head.target]

StoredOid(name) ==
    IF name = HEAD THEN HeadOid
    ELSE IF name \in RefsTags THEN tags[name]
    ELSE IF name \in RefsHeads THEN branches[name]
    ELSE NoOid

ObjectsWithPrefix(P) ==
    {o \in AllOids : Len(P) >= 4 /\ StartsWith(o, P)}

CommitNamedBy(name) ==
    IF StoredOid(name) # NoOid THEN Peel(StoredOid(name))
    ELSE IF Cardinality(ObjectsWithPrefix(name)) = 1
         THEN Peel(CHOOSE o \in ObjectsWithPrefix(name) : TRUE)
         ELSE NoOid

IsUniquePrefixOf(P, S) ==
    /\ S \in DOMAIN commits
    /\ Len(P) >= MinPrefixLen
    /\ StartsWith(S, P)
    /\ \A o \in AllOids \ {S} : ~StartsWith(o, P)

TwoCommits(b1, b2) ==
    (CommitOidOf(1) :> [tree |-> [p \in Paths |-> b1], parent |-> NoOid]) @@
    (CommitOidOf(2) :> [tree |-> [p \in Paths |-> b2], parent |-> CommitOidOf(1)])

\* the refs and shas raw requests name
RawRefs ==
    { <<"m">>, <<"x">>, <<"v">>, <<"t">>, HEAD, CommitOidOf(1), CommitOidOf(2),
      SubSeq(CommitOidOf(2), 1, MinPrefixLen + 1) }

\* a clean checkout: work tree and index hold the files of HEAD's commit
RawInit ==
    /\ ResolverIdle
    /\ ServerIdle
    /\ bare = FALSE
    /\ \E b1 \in {NoOid, BlobOid("x")}, b2 \in {NoOid, BlobOid("x"), BlobOid("y")} :
         /\ commits = TwoCommits(b1, b2)
         /\ blobStore = {b1, b2} \ {NoOid}
    /\ tagObjects = (TagObjectOid :> [object |-> CommitOidOf(2)])
    /\ branches \in {b \in [BranchNames -> {NoOid, CommitOidOf(1), CommitOidOf(2)}] :
                        /\ b[<<"m">>] # NoOid
                        /\ b[<<"m", "/", "x">>] = NoOid
                        /\ b[Master] = NoOid
                        /\ b[HexName] = NoOid}
    /\ tags \in {t \in [TagNames -> {NoOid, CommitOidOf(2), TagObjectOid}] :
                        /\ t[<<"v">>] # TagObjectOid
                        /\ t[<<"t">>] # CommitOidOf(2)
                        /\ t[<<"x">>] = NoOid}
    /\ head \in {[sym |-> TRUE, target |-> <<"m">>], [sym |-> TRUE, target |-> <<"x">>],
                 [sym |-> FALSE, target |-> CommitOidOf(2)]}
    /\ worktree = [p \in Paths |->
                     IF HeadTreeEntry(p) = NoOid THEN NoFile ELSE ContentOf(HeadTreeEntry(p))]
    /\ index = [p \in Paths |-> HeadTreeEntry(p)]
    /\ ignored \in {{}, Paths}
    /\ call = NoCall

\* somebody creates or overwrites a file in the work tree
WriteFile ==
    /\ \E p \in Paths, c \in Contents :
         /\ worktree[p] # c
         /\ worktree' = [worktree EXCEPT ![p] = c]
    /\ call' = NoCall
    /\ UNCHANGED <<resolverVars, serverVars, bare, head, branches, tags, commits, tagObjects,
                   blobStore, index, ignored>>

\* somebody deletes a file from the work tree
RemoveFile ==
    /\ \E p \in Paths :
         /\ worktree[p] # NoFile
         /\ worktree' = [worktree EXCEPT ![p] = NoFile]
    /\ call' = NoCall
    /\ UNCHANGED <<resolverVars, serverVars, bare, head, branches, tags, commits, tagObjects,
                   blobStore, index, ignored>>

\* git add -A <path>: stages the file, or its removal
GitAdd ==
    /\ \E p \in Paths :
         /\ index[p] # (IF worktree[p] = NoFile THEN NoOid ELSE BlobOid(worktree[p]))
         /\ IF worktree[p] = NoFile
            THEN /\ index' = [index EXCEPT ![p] = NoOid]
                 /\ UNCHANGED blobStore
            ELSE /\ index' = [index EXCEPT ![p] = BlobOid(worktree[p])]
                 /\ blobStore' = blobStore \cup {BlobOid(worktree[p])}
    /\ call' = NoCall
    /\ UNCHANGED <<resolverVars, serverVars, bare, head, branches, tags, commits, tagObjects,
                   worktree, ignored>>

\* GET /raw/:owner/:repo/:ref/<path>
RawRequest ==
    /\ call = NoCall
    /\ \E ref \in RawRefs, p \in Paths :
         /\ call' = [op |-> "raw", ref |-> ref, path |-> p, res |-> rawHandler(ref, p)]
         /\ blobStore' =
              IF resolveBlobSteps(ref, p, isCheckedOut(ref)).wrote
              THEN blobStore \cup {BlobOid(worktree[p])}
              ELSE blobStore
    /\ UNCHANGED <<resolverVars, serverVars, bare, head, branches, tags, commits, tagObjects,
                   worktree, index, ignored>>

RawNext == WriteFile \/ RemoveFile \/ GitAdd \/ RawRequest

SpecRaw == RawInit /\ [][RawNext]_vars

\* HEAD is at branch R
HeadAt(R) == head.sym /\ head.target = R /\ branches[R] # NoOid

\* f is a new uncommitted file: on disk, and in no commit
NewUncommittedFile(f) ==
    /\ worktree[f] # NoFile
    /\ \A c \in DOMAIN commits : commits[c].tree[f] = NoOid

MaxCommits == 3

\* the refs and shas list-commits requests name
LogRefs == { <<"m">>, <<"z">>, CommitOidOf(1), SubSeq(CommitOidOf(2), 1, MinPrefixLen + 1) }

\* the path query: none, or a file
LogPaths == Paths \cup {<<>>}

LogInit == ResolverIdle /\ ServerIdle /\ GitEmpty

\* git commit on branch "m": the new commit holds the given blobs (or no
\* file) and the work tree is clean afterwards
GitCommit ==
    /\ Cardinality(DOMAIN commits) < MaxCommits
    /\ head = [sym |-> TRUE, target |-> <<"m">>]
    /\ \E tree \in [Paths -> {NoOid} \cup {BlobOid(c) : c \in Contents}] :
         LET oid == CommitOidOf(Cardinality(DOMAIN commits) + 1) IN
         /\ commits' = commits @@ (oid :> [tree |-> tree, parent |-> branches[<<"m">>]])
         /\ branches' = [branches EXCEPT ![<<"m">>] = oid]
         /\ blobStore' = blobStore \cup ({tree[p] : p \in Paths} \ {NoOid})
         /\ index' = tree
         /\ worktree' = [p \in Paths |->
                           IF tree[p] = NoOid THEN NoFile ELSE ContentOf(tree[p])]
    /\ call' = NoCall
    /\ UNCHANGED <<resolverVars, serverVars, bare, head, tags, tagObjects, ignored>>

\* GET /api/repos/:owner/:repo/commits?sha=<ref>&path=<path>
CommitLogCall ==
    /\ call = NoCall
    /\ \E ref \in LogRefs, path \in LogPaths :
         call' = [op |-> "commitLog", ref |-> ref, path |-> path,
                  res |-> commitLog(ref, path)]
    /\ UNCHANGED <<resolverVars, serverVars, gitVars>>

LogNext == GitCommit \/ CommitLogCall

SpecLog == LogInit /\ [][LogNext]_vars

\* the blob at path in commit c, NoOid when the commit has no such file
BlobIn(c, path) == commits[c].tree[path]

\* how many commits, from the newest on, hold the path
RECURSIVE LeadingWithPath(_, _)
LeadingWithPath(cs, path) ==
    IF cs = <<>> \/ BlobIn(Head(cs), path) = NoOid THEN 0
    ELSE 1 + LeadingWithPath(Tail(cs), path)

\* the commits a log by path lists: among the leading commits that hold the
\* path, those whose blob differs from the blob in the next older commit
RECURSIVE ChangesOf(_, _, _, _)
ChangesOf(cs, path, i, n) ==
    IF i > n THEN <<>>
    ELSE (IF i = Len(cs) \/ BlobIn(cs[i + 1], path) # BlobIn(cs[i], path)
          THEN <<cs[i]>> ELSE <<>>) \o ChangesOf(cs, path, i + 1, n)

\* C6: with a path, commitLog returns, newest first, exactly the commits in
\* which the blob at path differs from the next older commit's, the commit
\* that introduced the path included, and stops where the path is absent.
C6_CommitLogByPath ==
    (call.op = "commitLog" /\ call.path # <<>> /\ call.res.ok) =>
        LET cs == Ancestry(resolveCommit(call.ref).val) IN
        call.res.val = ChangesOf(cs, call.path, 1, LeadingWithPath(cs, call.path))

(***************************************************************************)
(* Archive requests against the on-disk cache                              *)
(***************************************************************************)

MaxRequests == 2

\* the refs codeload requests name: the checked-out branch, another branch,
\* and a ref that does not exist
ArchiveRefs == { <<"m">>, <<"x">>, <<"z">> }

\* HEAD at branch "m"; branch "x" at the older commit; the work tree clean
\* or holding a modified file
ArchiveRepo ==
    /\ ResolverIdle
    /\ bare = FALSE
    /\ commits = TwoCommits(BlobOid("x"), BlobOid("y"))
    /\ blobStore = {BlobOid("x"), BlobOid("y")}
    /\ tagObjects = <<>>
    /\ branches = [b \in BranchNames |->
                     IF b = <<"m">> THEN CommitOidOf(2)
                     ELSE IF b = <<"x">> THEN CommitOidOf(1) ELSE NoOid]
    /\ tags = NoTags
    /\ head = [sym |-> TRUE, target |-> <<"m">>]
    /\ worktree \in [Paths -> Contents]
    /\ index = [p \in Paths |-> BlobOid("y")]
    /\ ignored = {}
    /\ call = NoCall
    /\ requests = [s \in slots |-> IdleReq]
    /\ cacheDir = <<>>
    /\ clock = 0
    /\ started = 0
    /\ prevDone = NoneDone
    /\ hreq = IdleHandler
    /\ ApiIdle
    /\ LifecycleIdle

\* requests arrive one after the other
ArchiveSeqInit == slots = {1} /\ ArchiveRepo

\* two requests may be in flight at the same time
ArchiveInit == slots = {1, 2} /\ ArchiveRepo

FileNameOf(r) == archiveFileName(r.serveUncommitted, r.commitSha, r.fmt)

\* GET /codeload/:owner/:repo/<format>/:ref arrives: isCheckedOut, then
\* resolveCommit and the reads of the commit and its tree
ArchiveStart(s) ==
    /\ requests[s].pc = "idle"
    /\ started < MaxRequests
    /\ \E ref \in ArchiveRefs, fmt \in Formats :
         LET oid == resolveCommit(ref) IN
         requests' = [requests EXCEPT ![s] =
            IF oid.ok /\ oid.val \in DOMAIN commits
            THEN [IdleReq EXCEPT !.pc = "check", !.ref = ref, !.fmt = fmt,
                                 !.serveUncommitted = isCheckedOut(ref),
                                 !.commitSha = oid.val]
            ELSE [IdleReq EXCEPT !.pc = "done", !.ref = ref, !.fmt = fmt,
                                 !.resp = ErrorResponse(500)]]
    /\ started' = started + 1
    /\ UNCHANGED <<resolverVars, gitVars, call, handlerVars, apiVars, lifecycleVars, slots, cacheDir, clock, prevDone>>

\* the cache check; a cached file is streamed to the response as it is
CheckCache(s) ==
    LET r == requests[s] IN
    /\ r.pc = "check"
    /\ IF useCachedArchive(r.serveUncommitted, FileNameOf(r) \in DOMAIN cacheDir)
       THEN requests' = [requests EXCEPT ![s].pc = "done",
                            ![s].resp = [status |-> 200,
                                         bytes |-> cacheDir[FileNameOf(r)].bytes,
                                         len |-> cacheDir[FileNameOf(r)].len,
                                         fromCache |-> TRUE]]
       ELSE requests' = [requests EXCEPT ![s].pc = "build"]
    /\ UNCHANGED <<resolverVars, gitVars, call, handlerVars, apiVars, lifecycleVars, slots, cacheDir, clock, started, prevDone>>

\* the archive is built; the working directory archive goes straight to the
\* response, the tree archive is piped into the cache file, which
\* fse.createWriteStream creates (or truncates) under its final name
BuildArchive(s) ==
    LET r == requests[s] IN
    /\ r.pc = "build"
    /\ clock' = clock + 1
    /\ IF r.serveUncommitted
       THEN /\ requests' = [requests EXCEPT ![s].pc = "done",
                               ![s].resp = [status |-> 200,
                                            bytes |-> archiveWorkingDir(clock),
                                            len |-> ArchiveChunks,
                                            fromCache |-> FALSE]]
            /\ UNCHANGED cacheDir
       ELSE /\ requests' = [requests EXCEPT ![s].pc = "write",
                               ![s].bytes = archiveGitTree(r.commitSha, clock)]
            /\ cacheDir' = (FileNameOf(r) :>
                               [bytes |-> archiveGitTree(r.commitSha, clock), len |-> 0])
                           @@ cacheDir
    /\ UNCHANGED <<resolverVars, gitVars, call, handlerVars, apiVars, lifecycleVars, slots, started, prevDone>>

\* one more chunk of the archive reaches the cache file
WriteChunk(s) ==
    LET r == requests[s]
        file == cacheDir[FileNameOf(r)]
    IN
    /\ r.pc = "write"
    /\ r.pos < ArchiveChunks
    /\ requests' = [requests EXCEPT ![s].pos = r.pos + 1]
    /\ cacheDir' = (FileNameOf(r) :>
                       [bytes |-> r.bytes,
                        len |-> IF file.len > r.pos + 1 THEN file.len ELSE r.pos + 1])
                   @@ cacheDir
    /\ UNCHANGED <<resolverVars, gitVars, call, handlerVars, apiVars, lifecycleVars, slots, clock, started, prevDone>>

\* 'finish' of the write stream: the cache file is read back into the response
WriteFinish(s) ==
    LET r == requests[s] IN
    /\ r.pc = "write"
    /\ r.pos = ArchiveChunks
    /\ requests' = [requests EXCEPT ![s].pc = "done",
                       ![s].resp = [status |-> 200,
                                    bytes |-> cacheDir[FileNameOf(r)].bytes,
                                    len |-> cacheDir[FileNameOf(r)].len,
                                    fromCache |-> FALSE]]
    /\ UNCHANGED <<resolverVars, gitVars, call, handlerVars, apiVars, lifecycleVars, slots, cacheDir, clock, started, prevDone>>

\* 'error' of the write stream (disk full, ...): the promise is rejected and
\* the error passed on; the file stays as far as it was written
WriteError(s) ==
    LET r == requests[s] IN
    /\ r.pc = "write"
    /\ r.pos < ArchiveChunks
    /\ requests' = [requests EXCEPT ![s].pc = "done", ![s].resp = ErrorResponse(500)]
    /\ UNCHANGED <<resolverVars, gitVars, call, handlerVars, apiVars, lifecycleVars, slots, cacheDir, clock, started, prevDone>>

\* the response has been sent
ArchiveDone(s) ==
    LET r == requests[s] IN
    /\ r.pc = "done"
    /\ prevDone' = [ref |-> r.ref, fmt |-> r.fmt, resp |-> r.resp]
    /\ requests' = [requests EXCEPT ![s] = IdleReq]
    /\ UNCHANGED <<resolverVars, gitVars, call, handlerVars, apiVars, lifecycleVars, slots, cacheDir, clock, started>>

ArchiveNext ==
    \/ \E s \in slots : ArchiveStart(s)
    \/ \E s \in slots : CheckCache(s)
    \/ \E s \in slots : BuildArchive(s)
    \/ \E s \in slots : WriteChunk(s)
    \/ \E s \in slots : WriteFinish(s)
    \/ \E s \in slots : WriteError(s)
    \/ \E s \in slots : ArchiveDone(s)

SpecArchiveSeq == ArchiveSeqInit /\ [][ArchiveNext]_vars

SpecArchive == ArchiveInit /\ [][ArchiveNext]_vars

\* the work tree and the index hold exactly the files of HEAD's commit
CleanWorkTree ==
    \A p \in Paths :
        /\ index[p] = HeadTreeEntry(p)
        /\ worktree[p] = (IF HeadTreeEntry(p) = NoOid THEN NoFile
                          ELSE ContentOf(HeadTreeEntry(p)))

\* request s has been answered with an archive, and so was the request
\* before it, which asked for the same ref and format
SecondOfTwo(s) ==
    /\ requests[s].pc = "done"
    /\ requests[s].resp.status = 200
    /\ prevDone.resp.status = 200
    /\ prevDone.ref = requests[s].ref
    /\ prevDone.fmt = requests[s].fmt

SameArchiveFromCache(s) ==
    /\ requests[s].resp.bytes = prevDone.resp.bytes
    /\ requests[s].resp.len = prevDone.resp.len
    /\ requests[s].resp.fromCache

\* C7 (as stated): in a repository without uncommitted changes, the second
\* of two consecutive requests for the same ref and format returns the
\* bytes of the first and is served from the cache.
C7_SecondFromCache ==
    \A s \in slots :
        (CleanWorkTree /\ SecondOfTwo(s)) => SameArchiveFromCache(s)

\* C7 (amended): the same, for a ref that is not checked out.
C7_SecondFromCacheUnlessCheckedOut ==
    \A s \in slots :
        (CleanWorkTree /\ SecondOfTwo(s) /\ ~isCheckedOut(requests[s].ref)) =>
            SameArchiveFromCache(s)

C7_Witness ==
    /\ CleanWorkTree
    /\ SecondOfTwo(1)
    /\ requests[1].ref = <<"x">>
    /\ ~prevDone.resp.fromCache
    /\ prevDone.resp.len = ArchiveChunks
    /\ SameArchiveFromCache(1)

\* C8: what a request streams from the cache is a complete archive, never a
\* file that is still being written or that a failed build left behind.
C8_CacheFilesComplete ==
    \A s \in slots :
        (requests[s].pc = "done" /\ requests[s].resp.fromCache) =>
            requests[s].resp.len = ArchiveChunks

(***************************************************************************)
(* One request through the contents, html and transfer handlers            *)
(***************************************************************************)

\* the ref of the request: none, an existing branch, an unknown name
HandlerRefs == { Undefined, Main, <<"z">> }

\* a repository that is bare or not, with or without branch "m", HEAD at a
\* branch or detached
HandlersInit ==
    /\ ResolverIdle
    /\ ArchiveIdle
    /\ ApiIdle
    /\ LifecycleIdle
    /\ bare \in BOOLEAN
    /\ commits = TwoCommits(NoOid, BlobOid("y"))
    /\ blobStore = {BlobOid("y")}
    /\ tagObjects = <<>>
    /\ branches \in {b \in [BranchNames -> {NoOid, CommitOidOf(2)}] :
                        /\ b[<<"m", "/", "x">>] = NoOid
                        /\ b[HexName] = NoOid}
    /\ tags = NoTags
    /\ head \in {[sym |-> TRUE, target |-> Main], [sym |-> TRUE, target |-> <<"x">>],
                 [sym |-> FALSE, target |-> CommitOidOf(1)]}
    /\ worktree = [p \in Paths |-> NoFile]
    /\ index = [p \in Paths |-> NoOid]
    /\ ignored = {}
    /\ call = NoCall
    /\ hreq = IdleHandler

\* a request is routed to its handler
ReceiveRequest ==
    /\ hreq.pc = "idle"
    /\ \E kind \in HandlerKinds, ref \in HandlerRefs :
         hreq' = [IdleHandler EXCEPT
                    !.kind = kind, !.ref = ref, !.refName = ref,
                    !.pc = IF kind = "xfer" THEN "backend"
                           ELSE IF kind = "html" THEN "parse"
                           ELSE IF ref = Undefined THEN "defaultBranch"
                           ELSE "resolve"]
    /\ UNCHANGED <<resolverVars, gitVars, call, archiveVars, apiVars, lifecycleVars>>

\* htmlHandler: await determineRefPathName(repPath, `${ref}/${path}`)
HtmlParseRefPath ==
    /\ hreq.pc = "parse"
    /\ \E p \in Paths :
         LET parsed == determineRefPathName(hreq.ref \o <<"/">> \o p)
             refName == IF parsed.found THEN parsed.ref ELSE hreq.ref
         IN  hreq' = [hreq EXCEPT !.refName = refName,
                         !.pc = IF refName = Undefined THEN "defaultBranch" ELSE "resolve"]
    /\ UNCHANGED <<resolverVars, gitVars, call, archiveVars, apiVars, lifecycleVars>>

\* refName = await defaultBranch(repPath), outside of any try/catch
AwaitDefaultBranch ==
    /\ hreq.pc = "defaultBranch"
    /\ hreq' = IF defaultBranch.ok
               THEN [hreq EXCEPT !.refName = defaultBranch.val, !.pc = "resolve"]
               ELSE Reject(hreq, defaultBranch.err)
    /\ UNCHANGED <<resolverVars, gitVars, call, archiveVars, apiVars, lifecycleVars>>

\* resolveCommit(...).then(...).catch(...)
ResolveAndRespond ==
    /\ hreq.pc = "resolve"
    /\ \E p \in Paths :
         hreq' = IF hreq.kind = "contents" THEN contentHandlerResolve(hreq, p)
                 ELSE htmlHandlerResolve(hreq, p)
    /\ UNCHANGED <<resolverVars, gitVars, call, archiveVars, apiVars, lifecycleVars>>

\* xferHandler: git-http-backend parses the request; an unknown service is
\* an error passed to next
XferBackend ==
    /\ hreq.pc = "backend"
    /\ \E knownService \in BOOLEAN :
         hreq' = IF knownService THEN [hreq EXCEPT !.pc = "spawn"]
                 ELSE NextErr(hreq, "BackendError")
    /\ UNCHANGED <<resolverVars, gitVars, call, archiveVars, apiVars, lifecycleVars>>

\* xferHandler: spawn(service.cmd, ...); a child process that cannot be
\* started emits 'error', for which no listener is registered
XferSpawn ==
    /\ hreq.pc = "spawn"
    /\ \E spawned \in BOOLEAN :
         hreq' = IF spawned THEN Respond(hreq, 200)
                 ELSE [hreq EXCEPT !.pc = "crashed", !.err = "SpawnError"]
    /\ UNCHANGED <<resolverVars, gitVars, call, archiveVars, apiVars, lifecycleVars>>

HandlersNext ==
    \/ ReceiveRequest
    \/ HtmlParseRefPath
    \/ AwaitDefaultBranch
    \/ ResolveAndRespond
    \/ XferBackend
    \/ XferSpawn

SpecHandlers == HandlersInit /\ [][HandlersNext]_vars /\ WF_vars(HandlersNext)

\* C10: every request that reached a handler eventually has exactly one
\* response; a NotFound failure is answered 404 and any other failure 500.
C10_EveryRequestAnswered ==
    /\ (hreq.pc # "idle") ~> (hreq.responses = 1)
    /\ [](hreq.responses <= 1)
    /\ [](hreq.responses = 1 /\ hreq.err = "NotFoundError" => hreq.status = 404)
    /\ [](hreq.responses = 1 /\ hreq.err \notin {"", "NotFoundError"} => hreq.status = 500)

(***************************************************************************)
(* Get-blob: GET /api/repos/:owner/:repo/git/blobs/:file_sha               *)
(***************************************************************************)

\* sha.match(/[0-9a-f]/g): the hex characters of sha, null (here <<>> with
\* isNull) when there is none
matchHex(sha) == SelectSeq(sha, LAMBDA c : c \in HexChars)

\* getObject(repPath, sha): the object database holds blobs, commits and
\* annotated tags
getObject(sha) ==
    IF sha \in blobStore \cup DOMAIN commits \cup DOMAIN tagObjects
    THEN Ok(sha) ELSE [ok |-> FALSE, err |-> "ReadObjectFail"]

\* the blob handler: the status it answers with and whether it got as far
\* as the object lookup
blobHandler(sha) ==
    IF matchHex(sha) = <<>>
    THEN \* null.length throws a TypeError in the handler; express passes
         \* it to its final handler
         [status |-> 500, lookup |-> FALSE]
    ELSE IF Len(matchHex(sha)) # FullShaLen
    THEN [status |-> 422, lookup |-> FALSE]
    ELSE LET o == getObject(sha) IN
         IF o.ok THEN [status |-> 200, lookup |-> TRUE]
         ELSE IF o.err = "ReadObjectFail" THEN [status |-> 404, lookup |-> TRUE]
         ELSE [status |-> 500, lookup |-> TRUE]

\* the lengths of the hex runs the requests are built from: none, one, the
\* test's 14, one short of a full sha, a full sha, one more
HexRunLens == {0, 1, 14, FullShaLen - 1, FullShaLen, FullShaLen + 1}

\* what may stand before or after the hex run: nothing, an upper-case
\* hex digit, a letter that is no hex digit, a dash
Affixes == {<<>>, <<"A">>, <<"g">>, <<"-">>}

ShaInputs ==
    {pre \o Rep(h, n) \o suf : pre \in Affixes, suf \in Affixes,
                                 h \in {"0", "a", "f"}, n \in HexRunLens}
        \cup {BlobOid(c) : c \in Contents}

BlobInit ==
    /\ ResolverIdle
    /\ ServerIdle
    /\ GitEmpty

\* git hash-object -w: a blob enters the object database
StoreBlob ==
    /\ api.pc = "idle"
    /\ \E c \in Contents :
         /\ BlobOid(c) \notin blobStore
         /\ blobStore' = blobStore \cup {BlobOid(c)}
    /\ UNCHANGED <<resolverVars, bare, head, branches, tags, commits, tagObjects,
                   worktree, index, ignored, call, serverVars>>

\* a get-blob request arrives
BlobRequest ==
    /\ api.pc \in {"idle", "done"}
    /\ \E sha \in ShaInputs :
         api' = [route |-> "blob", pc |-> "received", status |-> 0,
                 sha |-> sha, lookup |-> FALSE]
    /\ UNCHANGED <<resolverVars, gitVars, call, archiveVars, handlerVars, trees,
                   lifecycleVars>>

\* the blob handler answers it
GetBlob ==
    /\ api.route = "blob"
    /\ api.pc = "received"
    /\ LET r == blobHandler(api.sha) IN
         api' = [api EXCEPT !.pc = "done", !.status = r.status, !.lookup = r.lookup]
    /\ UNCHANGED <<resolverVars, gitVars, call, archiveVars, handlerVars, trees,
                   lifecycleVars>>

BlobNext == StoreBlob \/ BlobRequest \/ GetBlob

SpecBlob == BlobInit /\ [][BlobNext]_vars

\* a file_sha of exactly 40 characters, all of them in [0-9a-f]
IsExactSha(s) == Len(s) = FullShaLen /\ \A i \in 1..Len(s) : s[i] \in HexChars

\* C11: get-blob answers 422 for every file_sha that is not exactly 40
\* characters of [0-9a-f], and only a file_sha of that form reaches the
\* object lookup
C11_InvalidShaIs422 ==
    (api.route = "blob" /\ api.pc = "done") =>
        /\ ~IsExactSha(api.sha) => (api.status = 422 /\ ~api.lookup)
        /\ api.lookup => IsExactSha(api.sha)

(***************************************************************************)
(* List-commits: GET /api/repos/:owner/:repo/commits?sha=:sha&path=:path   *)
(***************************************************************************)

\* issue #247: while (fpath.length && fpath[0] === '/') fpath = fpath.substr(1)
RECURSIVE trimLeadingSlashes(_)
trimLeadingSlashes(fpath) ==
    IF fpath # <<>> /\ Head(fpath) = "/" THEN trimLeadingSlashes(Tail(fpath)) ELSE fpath

\* the commit handler: 400 when the path query is not a string, 200 with
\* the commits of commitLog, and next(err) for every failure of commitLog
commitHandler(sha, pathIsString, fpath) ==
    IF ~pathIsString THEN [status |-> 400, body |-> <<>>, err |-> ""]
    ELSE LET r == commitLog(sha, trimLeadingSlashes(fpath)) IN
         IF r.ok THEN [status |-> 200, body |-> r.val, err |-> ""]
         ELSE [status |-> 500, body |-> <<>>, err |-> r.err]

\* req.query.sha || 'master'
ShaQueries == RefInputs \cup {Undefined}

PathQueries == {<<>>, <<"f">>, <<"/", "/", "f">>}

\* a checkout of branch "m" with three commits, optionally a branch "x" on
\* the first commit, a lightweight and an annotated tag on the last one
CommitsInit ==
    /\ ResolverIdle
    /\ ServerIdle
    /\ bare = FALSE
    /\ commits = ThreeCommits
    /\ tagObjects = (TagObjectOid :> [object |-> CommitOidOf(3)])
    /\ blobStore = {BlobOid("y")}
    /\ branches \in {b \in [BranchNames -> {NoOid, CommitOidOf(1), CommitOidOf(3)}] :
                        /\ b[Main] = CommitOidOf(3)
                        /\ b[<<"x">>] # CommitOidOf(3)
                        /\ b[Master] # CommitOidOf(1)
                        /\ b[<<"m", "/", "x">>] = NoOid
                        /\ b[HexName] = NoOid}
    /\ tags \in {t \in [TagNames -> {NoOid, CommitOidOf(3), TagObjectOid}] :
                        /\ t[<<"v">>] # TagObjectOid
                        /\ t[<<"t">>] # CommitOidOf(3)
                        /\ t[<<"x">>] = NoOid}
    /\ head = [sym |-> TRUE, target |-> Main]
    /\ worktree = [p \in Paths |-> "y"]
    /\ index = [p \in Paths |-> BlobOid("y")]
    /\ ignored = {}
    /\ call = NoCall

\* a list-commits request arrives
CommitsRequest ==
    /\ api.pc \in {"idle", "done"}
    /\ \E sha \in ShaQueries, fpath \in PathQueries, pathIsString \in BOOLEAN :
         api' = [route |-> "commits", pc |-> "received", status |-> 0,
                 sha |-> IF sha = Undefined THEN Master ELSE sha,
                 fpath |-> fpath, pathIsString |-> pathIsString,
                 body |-> <<>>, err |-> ""]
    /\ UNCHANGED <<resolverVars, gitVars, call, archiveVars, handlerVars, trees,
                   lifecycleVars>>

\* the commit handler answers it
ListCommits ==
    /\ api.route = "commits"
    /\ api.pc = "received"
    /\ LET r == commitHandler(api.sha, api.pathIsString, api.fpath) IN
         api' = [api EXCEPT !.pc = "done", !.status = r.status, !.body = r.body,
                            !.err = r.err]
    /\ UNCHANGED <<resolverVars, gitVars, call, archiveVars, handlerVars, trees,
                   lifecycleVars>>

CommitsNext == CommitsRequest \/ ListCommits

SpecCommits == CommitsInit /\ [][CommitsNext]_vars

\* C12: list-commits for a sha that names no branch, tag or commit of the
\* repository answers 404 (not 500, not an empty list)
C12_UnknownRefIs404 ==
    (/\ api.route = "commits" /\ api.pc = "done" /\ api.pathIsString
     /\ CommitNamedBy(api.sha) = NoOid)
        => api.status = 404

(***************************************************************************)
(* Subdomain rewriter (lib/subdomainHandler.js)                            *)
(***************************************************************************)

MaxHostLen == 5

\* s.split(sep) for a one-character separator
RECURSIVE splitOnAcc(_, _, _, _)
splitOnAcc(s, sep, cur, acc) ==
    IF s = <<>> THEN Append(acc, cur)
    ELSE IF Head(s) = sep THEN splitOnAcc(Tail(s), sep, <<>>, Append(acc, cur))
    ELSE splitOnAcc(Tail(s), sep, Append(cur, Head(s)), acc)

splitOn(s, sep) == splitOnAcc(s, sep, <<>>, <<>>)

\* parts.join(sep)
RECURSIVE join(_, _)
join(parts, sep) ==
    IF parts = <<>> THEN <<>>
    ELSE IF Len(parts) = 1 THEN parts[1]
    ELSE parts[1] \o <<sep>> \o join(Tail(parts), sep)

\* _.trimEnd(s, '.')
RECURSIVE trimEnd(_, _)
trimEnd(s, c) ==
    IF s # <<>> /\ s[Len(s)] = c THEN trimEnd(SubSeq(s, 1, Len(s) - 1), c) ELSE s

\* _.findIndex(baseDomains, dom => _.endsWith(host, dom)), 0 for -1
findIndex(baseDomains, host) ==
    LET hits == {i \in 1..Len(baseDomains) : EndsWith(host, baseDomains[i])} IN
    IF hits = {} THEN 0 ELSE CHOOSE i \in hits : \A j \in hits : i <= j

\* the middleware without the trimEnd
subdomainHandler_KeepDots(conf, hostHeader, url) ==
    LET enabled == conf.enable /\ Len(conf.baseDomains) > 0
        host == splitOn(hostHeader, ":")[1]
        i == findIndex(conf.baseDomains, host)
        sub == SubSeq(host, 1, Len(host) - Len(conf.baseDomains[i]))
    IN  IF ~enabled \/ i = 0 \/ sub = <<>> THEN [url |-> url, mappedSubDomain |-> FALSE]
        ELSE [url |-> <<"/">> \o join(splitOn(sub, "."), "/") \o url,
              mappedSubDomain |-> TRUE]

\* the middleware: req.url and req.mappedSubDomain as it leaves them
subdomainHandler(conf, hostHeader, url) ==
    LET enabled == conf.enable /\ Len(conf.baseDomains) > 0
        host == splitOn(hostHeader, ":")[1]
        i == findIndex(conf.baseDomains, host)
        sub == trimEnd(SubSeq(host, 1, Len(host) - Len(conf.baseDomains[i])), ".")
    IN  IF ~enabled \/ i = 0 \/ sub = <<>> THEN [url |-> url, mappedSubDomain |-> FALSE]
        ELSE [url |-> <<"/">> \o join(splitOn(sub, "."), "/") \o url,
              mappedSubDomain |-> TRUE]

\* the base domains of the configurations: "l" and its sub-domain "b.l"
BaseDomain == <<"l">>
SubBaseDomain == <<"b", ".", "l">>

SubdomainConfs ==
    [enable : BOOLEAN,
     baseDomains : {<<>>, <<BaseDomain>>, <<SubBaseDomain>>,
                    <<BaseDomain, SubBaseDomain>>, <<SubBaseDomain, BaseDomain>>}]

PortSuffix == <<":", "5">>

\* Host headers: names over two letters, the dot and the base domain's
\* letter, with or without a port
HostHeaders ==
    {h \o p : h \in StrUpTo({"a", "b", ".", "l"}, MaxHostLen), p \in {<<>>, PortSuffix}}

SubdomainInit ==
    /\ ResolverIdle
    /\ GitEmpty
    /\ ArchiveIdle
    /\ hreq = IdleHandler
    /\ LifecycleIdle
    /\ trees = <<>>
    /\ \E conf \in SubdomainConfs :
         api = [route |-> "", pc |-> "idle", status |-> 0, conf |-> conf]

\* a request arrives at the server
SubdomainRequest ==
    /\ api.pc = "idle"
    /\ \E h \in HostHeaders :
         api' = [route |-> "any", pc |-> "received", status |-> 0, conf |-> api.conf,
                 host |-> h, origUrl |-> <<"/", "p">>, url |-> <<"/", "p">>,
                 mappedSubDomain |-> FALSE]
    /\ UNCHANGED <<resolverVars, gitVars, call, archiveVars, handlerVars, trees,
                   lifecycleVars>>

\* the subdomain middleware rewrites it and passes it on
SubdomainRewrite ==
    /\ api.route = "any"
    /\ api.pc = "received"
    /\ LET r == subdomainHandler(api.conf, api.host, api.url) IN
         api' = [api EXCEPT !.pc = "rewritten", !.url = r.url,
                            !.mappedSubDomain = r.mappedSubDomain]
    /\ UNCHANGED <<resolverVars, gitVars, call, archiveVars, handlerVars, trees,
                   lifecycleVars>>

SubdomainNext == SubdomainRequest \/ SubdomainRewrite

SpecSubdomain == SubdomainInit /\ [][SubdomainNext]_vars

\* the Host header with any :port removed
HostName(h) ==
    IF \E i \in 1..Len(h) : h[i] = ":"
    THEN SubSeq(h, 1, (CHOOSE i \in 1..Len(h) : h[i] = ":" /\ \A j \in 1..(i - 1) : h[j] # ":") - 1)
    ELSE h

\* what stands before the suffix dom of host h
LeadOf(h, dom) == SubSeq(h, 1, Len(h) - Len(dom))

\* the sub-domain labels of a leading part: the part without the dot that
\* separates it from the base domain, split at the dots
LabelsOf(lead) ==
    splitOn(IF lead # <<>> /\ lead[Len(lead)] = "." THEN SubSeq(lead, 1, Len(lead) - 1)
            ELSE lead, ".")

\* /<sub1>/<sub2>/.../<subN><original path>
RECURSIVE PrefixedBy(_, _)
PrefixedBy(labels, path) ==
    IF labels = <<>> THEN path
    ELSE <<"/">> \o Head(labels) \o PrefixedBy(Tail(labels), path)

ConfiguredDomains == {api.conf.baseDomains[i] : i \in 1..Len(api.conf.baseDomains)}

\* C13 (as stated): with subdomain mapping enabled, a host that ends with a
\* configured base domain and has a non-empty part before that suffix is
\* rewritten to /<sub1>/.../<subN><original path> and marked as mapped;
\* every other request is left unchanged and not marked
C13_SubdomainRewrite ==
    (api.route = "any" /\ api.pc = "rewritten") =>
        LET h == HostName(api.host)
            doms == {d \in ConfiguredDomains : EndsWith(h, d) /\ LeadOf(h, d) # <<>>}
        IN  IF api.conf.enable /\ doms # {}
            THEN /\ api.mappedSubDomain
                 /\ \E d \in doms :
                      api.url = PrefixedBy(LabelsOf(LeadOf(h, d)), api.origUrl)
            ELSE ~api.mappedSubDomain /\ api.url = api.origUrl

\* the first configured base domain the host ends with, <<>> when none
FirstDomain(h) ==
    LET bd == api.conf.baseDomains
        hits == {i \in 1..Len(bd) : EndsWith(h, bd[i])}
    IN  IF hits = {} THEN <<>> ELSE bd[CHOOSE i \in hits : \A j \in hits : i <= j]

\* the leading part without the dots at its end
RECURSIVE WithoutTrailingDots(_)
WithoutTrailingDots(lead) ==
    IF lead = <<>> \/ lead[Len(lead)] # "." THEN lead
    ELSE WithoutTrailingDots(SubSeq(lead, 1, Len(lead) - 1))

\* C13 (amended): the suffix is the first configured base domain the host
\* ends with, and the part before it counts without the dots at its end:
\* when that part is non-empty the path is rewritten with its labels in
\* left-to-right order and the request is marked; otherwise nothing changes
C13_SubdomainRewriteFirstDomain ==
    (api.route = "any" /\ api.pc = "rewritten") =>
        LET h == HostName(api.host)
            d == FirstDomain(h)
            lead == WithoutTrailingDots(LeadOf(h, d))
        IN  IF api.conf.enable /\ d # <<>> /\ lead # <<>>
            THEN /\ api.mappedSubDomain
                 /\ api.url = PrefixedBy(splitOn(lead, "."), api.origUrl)
            ELSE ~api.mappedSubDomain /\ api.url = api.origUrl

\* a host with a port and two different labels before the base domain was
\* rewritten
C13_Witness ==
    /\ api.route = "any" /\ api.pc = "rewritten"
    /\ api.host = <<"a", ".", "b", ".", "l">> \o PortSuffix
    /\ api.conf.baseDomains = <<BaseDomain>>
    /\ api.mappedSubDomain
    /\ api.url = <<"/", "a", "/", "b", "/", "p">>

(***************************************************************************)
(* Server life cycle (lib/server.js)                                       *)
(***************************************************************************)

\* ports are written as they appear in URLs
DEFAULT_HTTP_PORT == "5000"
DEFAULT_HTTPS_PORT == "5443"
AnyPort == "0"
Disabled == "-1"

\* the ports the system hands out when port 0 is asked for
EphemeralPorts == {"49152", "49153", "49154"}

\* the most listeners the machine lets the process keep open
MaxListeners == 4

\* rawConfig.listen: http.port and https.port as given, NoPort when the
\* port is left out, Null when there is no https section at all
NoPort == "undefined"
ListenConfigs ==
    [http : {NoPort, AnyPort}, https : {Null, NoPort, AnyPort}]

\* applyDefaults: the default ports fill in what the configuration leaves out
applyDefaults(listen) ==
    [http |-> IF listen.http = NoPort THEN DEFAULT_HTTP_PORT ELSE listen.http,
     https |-> IF listen.https = Null THEN Null
               ELSE IF listen.https = NoPort THEN DEFAULT_HTTPS_PORT
               ELSE listen.https]

BoundPorts == {l.port : l \in listeners}

\* the ports listen(port) may end up bound to; none when the port is taken
portsFor(port, taken) ==
    IF port = AnyPort THEN EphemeralPorts \ taken
    ELSE IF port \in taken THEN {} ELSE {port}

FreeIds == (1..MaxListeners) \ {l.id : l \in listeners}

\* srv.address().port of a listener held in serverState
addressPort(ls, id) == (CHOOSE l \in ls : l.id = id).port

\* the value start() resolves with
startResult(state, ls) ==
    [httpPort |-> addressPort(ls, state.httpSrv),
     httpsPort |-> IF state.httpsSrv # NoSrv THEN addressPort(ls, state.httpsSrv)
                   ELSE Disabled]

ServerInit ==
    /\ ResolverIdle
    /\ ServerIdle
    /\ GitEmpty

\* start(rawConfig) with HTTP only, or with HTTPS whose certificate cannot
\* be read or created: the HTTP listener is opened and stored; when the
\* port is taken the listen callback never runs and start() never settles
StartHttp ==
    \E raw \in ListenConfigs, certOk \in BOOLEAN :
      LET listen == applyDefaults(raw) IN
      /\ Cardinality(listeners) + 2 <= MaxListeners
      /\ listen.https = Null \/ ~certOk
      /\ \/ /\ portsFor(listen.http, BoundPorts) = {}
            /\ returned' = [op |-> "start", outcome |-> "pending", listen |-> listen]
            /\ UNCHANGED <<serverState, listeners>>
         \/ \E p \in portsFor(listen.http, BoundPorts) :
              LET h == [id |-> CHOOSE i \in FreeIds : \A j \in FreeIds : i <= j,
                        scheme |-> "http", port |-> p, listen |-> listen]
                  st == [serverState EXCEPT !.httpSrv = h.id]
              IN  /\ listeners' = listeners \cup {h}
                  /\ serverState' = st
                  /\ returned' =
                       IF listen.https # Null
                       THEN [op |-> "start", outcome |-> "error", listen |-> listen]
                       ELSE [op |-> "start", outcome |-> "ok", listen |-> listen,
                             opened |-> [http |-> h.id, https |-> NoSrv],
                             value |-> startResult(st, listeners \cup {h})]
      /\ UNCHANGED <<resolverVars, gitVars, call, archiveVars, handlerVars, apiVars>>

\* start(rawConfig) with HTTPS configured: the HTTP listener first, then the
\* HTTPS one; a taken HTTPS port leaves start() pending with the HTTP
\* listener open
StartHttps ==
    \E raw \in ListenConfigs :
      LET listen == applyDefaults(raw) IN
      /\ Cardinality(listeners) + 2 <= MaxListeners
      /\ listen.https # Null
      /\ \E p \in portsFor(listen.http, BoundPorts) :
           LET h == [id |-> CHOOSE i \in FreeIds : \A j \in FreeIds : i <= j,
                     scheme |-> "http", port |-> p, listen |-> listen]
               ids == FreeIds \ {h.id}
           IN  \/ /\ portsFor(listen.https, BoundPorts \cup {p}) = {}
                  /\ listeners' = listeners \cup {h}
                  /\ serverState' = [serverState EXCEPT !.httpSrv = h.id]
                  /\ returned' = [op |-> "start", outcome |-> "pending", listen |-> listen]
               \/ \E q \in portsFor(listen.https, BoundPorts \cup {p}) :
                    LET g == [id |-> CHOOSE i \in ids : \A j \in ids : i <= j,
                              scheme |-> "https", port |-> q, listen |-> listen]
                        st == [httpSrv |-> h.id, httpsSrv |-> g.id]
                    IN  /\ listeners' = listeners \cup {h, g}
                        /\ serverState' = st
                        /\ returned' = [op |-> "start", outcome |-> "ok", listen |-> listen,
                                      opened |-> [http |-> h.id, https |-> g.id],
                                      value |-> startResult(st, listeners \cup {h, g})]
      /\ UNCHANGED <<resolverVars, gitVars, call, archiveVars, handlerVars, apiVars>>

\* stop(): closes the listeners held in serverState and forgets them
Stop ==
    /\ listeners' = {l \in listeners : l.id \notin {serverState.httpSrv, serverState.httpsSrv}}
    /\ serverState' = [httpSrv |-> NoSrv, httpsSrv |-> NoSrv]
    /\ returned' = [op |-> "stop", outcome |-> "ok"]
    /\ UNCHANGED <<resolverVars, gitVars, call, archiveVars, handlerVars, apiVars>>

ServerNext == StartHttp \/ StartHttps \/ Stop

SpecServer == ServerInit /\ [][ServerNext]_vars

\* the listener with the given id
ListenerOf(id) == CHOOSE l \in listeners : l.id = id

\* C16: every successful start returns httpPort equal to the port of the
\* HTTP listener it just opened, and httpsPort equal to the port of the
\* HTTPS listener it opened when HTTPS is configured, -1 when it is not
C16_StartReportsBoundPorts ==
    (returned.op = "start" /\ returned.outcome = "ok") =>
        /\ returned.value.httpPort = ListenerOf(returned.opened.http).port
        /\ returned.listen.https # Null =>
               returned.value.httpsPort = ListenerOf(returned.opened.https).port
        /\ returned.listen.https = Null => returned.value.httpsPort = Disabled

\* C17: once stop() has completed no listener opened by an earlier start()
\* is still bound, and stop() without a running server completes without
\* error
C17_StopFreesAllListeners ==
    returned.op = "stop" => (listeners = {} /\ returned.outcome = "ok")

(***************************************************************************)
(* Archive links and self-referential URLs (lib/archiveLinkHandler.js)     *)
(***************************************************************************)

\* URLs are sequences of the pieces their template strings put together

\* options.listen[req.protocol].port
listenPort(listen, protocol) == IF protocol = "http" THEN listen.http ELSE listen.https

\* req.mappedSubDomain ? `localhost:${options.listen[req.protocol].port}`
\*                      : req.headers.host
selfHost(mappedSubDomain, listen, protocol, hostHeader) ==
    IF mappedSubDomain THEN <<"localhost", ":", listenPort(listen, protocol)>>
    ELSE hostHeader

\* the handler without the default for a missing ref
archiveLinkHandler_NoDefault(req, listen, archiveFormat) ==
    LET refName == req.ref
        host == selfHost(req.mappedSubDomain, listen, req.protocol, req.host)
    IN  [status |-> 302,
         location |-> <<req.protocol, "://">> \o host \o <<"/codeload/">> \o req.owner
                        \o <<"/">> \o req.repo \o <<"/", archiveFormat, "/">> \o refName]

\* the archive link handler: 302 with the codeload location
archiveLinkHandler(req, listen, archiveFormat) ==
    LET refName == IF req.ref = Undefined THEN Master ELSE req.ref
        host == selfHost(req.mappedSubDomain, listen, req.protocol, req.host)
    IN  [status |-> 302,
         location |-> <<req.protocol, "://">> \o host \o <<"/codeload/">> \o req.owner
                        \o <<"/">> \o req.repo \o <<"/", archiveFormat, "/">> \o refName]

\* subdomain mapping as the tests configure it
MappingConf == [enable |-> TRUE, baseDomains |-> <<BaseDomain>>]

\* the routes of the archive links; only the API routes may leave out the ref
LinkRoutes == {"zipball", "tarball", "archive.zip", "archive.tar.gz"}
LinkFormat(route) == IF route \in {"zipball", "archive.zip"} THEN "zip" ELSE "tar.gz"

\* the repository is empty, or has branch "m" with two commits
LinksInit ==
    /\ ResolverIdle
    /\ ServerIdle
    /\ bare = FALSE
    /\ head = [sym |-> TRUE, target |-> Main]
    /\ \E populated \in BOOLEAN :
         /\ commits = IF populated THEN TwoCommits(NoOid, BlobOid("y")) ELSE <<>>
         /\ branches = [b \in BranchNames |->
                          IF populated /\ b = Main THEN CommitOidOf(2) ELSE NoOid]
         /\ blobStore = IF populated THEN {BlobOid("y")} ELSE {}
    /\ tags = NoTags
    /\ tagObjects = <<>>
    /\ worktree = [p \in Paths |-> NoFile]
    /\ index = [p \in Paths |-> NoOid]
    /\ ignored = {}
    /\ call = NoCall

\* an archive-link request arrives at one of the listeners, addressed by a
\* sub-domain of the base domain or by the plain host name, with the port
\* the listener is bound to
LinkRequest ==
    /\ api.pc \in {"idle", "done"}
    /\ \E l \in listeners, name \in {<<"a", ".">> \o BaseDomain, <<"h">>},
          route \in LinkRoutes, ref \in {Undefined, Main, <<"z">>} :
         /\ ref = Undefined => route \in {"zipball", "tarball"}
         /\ api' = [route |-> route, pc |-> "received", status |-> 0,
                    listener |-> l, protocol |-> l.scheme,
                    host |-> name \o <<":", l.port>>,
                    owner |-> <<"o">>, repo |-> <<"r">>, ref |-> ref,
                    mappedSubDomain |-> FALSE, location |-> <<>>]
    /\ UNCHANGED <<resolverVars, gitVars, call, archiveVars, handlerVars, trees,
                   lifecycleVars>>

\* the subdomain middleware marks the request and the archive link handler
\* of its route answers it
ArchiveLink ==
    /\ api.route \in LinkRoutes
    /\ api.pc = "received"
    /\ LET m == subdomainHandler(MappingConf, api.host, <<"/">>).mappedSubDomain
           req == [api EXCEPT !.mappedSubDomain = m]
           r == archiveLinkHandler(req, api.listener.listen, LinkFormat(api.route))
       IN  api' = [req EXCEPT !.pc = "done", !.status = r.status, !.location = r.location]
    /\ UNCHANGED <<resolverVars, gitVars, call, archiveVars, handlerVars, trees,
                   lifecycleVars>>

\* one server at a time: started, asked for archive links, stopped
LinksNext ==
    \/ listeners = {} /\ StartHttp
    \/ listeners = {} /\ StartHttps
    \/ LinkRequest
    \/ ArchiveLink
    \/ api.pc # "received" /\ Stop

SpecLinks == LinksInit /\ [][LinksNext]_vars

\* the host part of an emitted URL: what stands between "://" and the path
HostOfUrl(url) ==
    LET k == CHOOSE i \in 1..Len(url) : url[i] = "/codeload/" /\ \A j \in 1..(i - 1) : url[j] # "/codeload/"
    IN  SubSeq(url, 3, k - 1)

\* C14: for a request rewritten by the subdomain rewriter the emitted URL
\* uses localhost:<port the listener for the request's scheme is bound to>,
\* a port this server listens on also when port 0 is configured; for any
\* other request it uses the request's Host unchanged
C14_SelfUrlResolvable ==
    (api.route \in LinkRoutes /\ api.pc = "done") =>
        HostOfUrl(api.location) =
            IF api.mappedSubDomain THEN <<"localhost", ":", api.listener.port>>
            ELSE api.host

\* C15: every archive-link request is answered with 302 and the Location
\* <scheme>://<host>/codeload/<owner>/<repo>/<zip|tar.gz>/<ref>, with master
\* for a missing ref, whether or not the repository or the ref exists; the
\* host is the request's Host, or a localhost address for a mapped request
C15_ArchiveLinkRedirect ==
    (api.route \in LinkRoutes /\ api.pc = "done") =>
        LET host == HostOfUrl(api.location) IN
        /\ api.status = 302
        /\ IF api.mappedSubDomain THEN SubSeq(host, 1, 2) = <<"localhost", ":">>
                                  ELSE host = api.host
        /\ api.location =
             <<api.protocol, "://">> \o host
                \o <<"/codeload/">> \o api.owner \o <<"/">> \o api.repo
                \o <<"/", IF api.route \in {"zipball", "archive.zip"} THEN "zip" ELSE "tar.gz", "/">>
                \o (IF api.ref = Undefined THEN <<"m", "a", "s", "t", "e", "r">> ELSE api.ref)

\* a link without a ref and a link to a ref that does not exist were both
\* answered, the latter in a repository without any commit
C15_Witness ==
    /\ api.route \in LinkRoutes /\ api.pc = "done" /\ api.status = 302
    /\ commits = <<>>
    /\ api.ref = <<"z">>
    /\ api.protocol = "https"

(***************************************************************************)
(* Get-tree: GET /api/repos/:owner/:repo/git/trees/:ref_or_sha?recursive   *)
(***************************************************************************)

\* the three tree objects of the model: the root and two levels below it
RootTree == Rep("7", FullShaLen)
SubTree == Rep("8", FullShaLen)
SubSubTree == Rep("6", FullShaLen)
TreeOids == {RootTree, SubTree, SubSubTree}

\* the entries a tree may hold, in the order git stores them (by name); a
\* tree refers only to trees below it; "s" is a submodule
EntriesOf(t) ==
    IF t = RootTree
    THEN << [path |-> <<"a">>, type |-> "blob", oid |-> BlobOid("x")],
            [path |-> <<"b">>, type |-> "tree", oid |-> SubTree],
            [path |-> <<"c">>, type |-> "tree", oid |-> SubSubTree],
            [path |-> <<"s">>, type |-> "commit", oid |-> CommitOidOf(1)] >>
    ELSE IF t = SubTree
    THEN << [path |-> <<"a">>, type |-> "blob", oid |-> BlobOid("y")],
            [path |-> <<"c">>, type |-> "tree", oid |-> SubSubTree] >>
    ELSE << [path |-> <<"a">>, type |-> "blob", oid |-> BlobOid("x")],
            [path |-> <<"d">>, type |-> "blob", oid |-> BlobOid("y")] >>

\* the sub-sequences of a tree's possible entries
TreeChoices(t) ==
    {SelectSeq(EntriesOf(t), LAMBDA e : e \in S) :
        S \in SUBSET {EntriesOf(t)[i] : i \in 1..Len(EntriesOf(t))}}

\* path.join(treePath, path) without the parent
joinPaths_NoParent(treePath, path) == path

\* path.join(treePath, path) on a POSIX system
joinPaths(treePath, path) ==
    IF treePath = <<>> THEN path ELSE treePath \o <<"/">> \o path

\* the oid of the tree object that holds the files of a commit
TreeOidOf(tree) ==
    IF tree = EmptyTree THEN Rep("4", FullShaLen)
    ELSE <<"d">> \o SubSeq(tree[CHOOSE p \in Paths : tree[p] # NoOid], 2, FullShaLen)

\* the type git.readObject reports for an oid, "none" when there is no
\* such object
objectType(oid) ==
    IF oid \in DOMAIN trees THEN "tree"
    ELSE IF oid \in DOMAIN commits THEN "commit"
    ELSE IF oid \in DOMAIN tagObjects THEN "tag"
    ELSE IF oid \in blobStore THEN "blob"
    ELSE "none"

ObjectTypeError == [ok |-> FALSE, err |-> "ObjectTypeError", val |-> NoOid]

\* resolveTree that hands back whatever an annotated tag points to
resolveTree_TagTarget(refOrSha) ==
    IF isValidSha(refOrSha) /\ objectType(refOrSha) = "tag"
    THEN Ok(tagObjects[refOrSha].object)
    ELSE IF isValidSha(refOrSha) /\ objectType(refOrSha) = "tree" THEN Ok(refOrSha)
    ELSE IF isValidSha(refOrSha) /\ objectType(refOrSha) = "commit"
    THEN Ok(TreeOidOf(commits[refOrSha].tree))
    ELSE IF isValidSha(refOrSha) /\ objectType(refOrSha) = "blob" THEN ObjectTypeError
    ELSE NotFoundError

\* resolveTree: the oid of the tree object named directly by its sha, or
\* reached from a ref, a commit or an annotated tag
resolveTree(refOrSha) ==
    LET byRef == resolveRef(refOrSha)
        oid == IF isValidSha(refOrSha) THEN Ok(refOrSha)
               ELSE IF byRef.ok THEN byRef
               ELSE IF byRef.err = "NotFoundError"
                    THEN (IF expandOid(refOrSha).ok THEN expandOid(refOrSha) ELSE byRef)
               ELSE byRef
        type == objectType(oid.val)
    IN  IF ~oid.ok THEN oid
        ELSE IF type = "none" THEN NotFoundError
        ELSE IF type = "tree" THEN oid
        ELSE IF type = "commit" THEN Ok(TreeOidOf(commits[oid.val].tree))
        ELSE IF type = "tag" /\ objectType(tagObjects[oid.val].object) = "commit"
        THEN Ok(TreeOidOf(commits[tagObjects[oid.val].object].tree))
        ELSE IF type = "tag" /\ objectType(tagObjects[oid.val].object) = "tree"
        THEN Ok(tagObjects[oid.val].object)
        ELSE ObjectTypeError

\* collectTreeEntries(repPath, entries, result, treePath, deep): the entries
\* with their paths below treePath are appended to result, then, when deep,
\* the entries of every sub-tree in turn
RECURSIVE collectTreeEntries(_, _, _, _)
RECURSIVE collectSubTrees(_, _, _, _)
collectSubTrees(treeItems, i, result, deep) ==
    IF i > Len(treeItems) THEN result
    ELSE collectSubTrees(treeItems, i + 1,
             collectTreeEntries(trees[treeItems[i].oid], result, treeItems[i].path, deep),
             deep)

\* collectTreeEntries that descends into the sub-trees before it lists the
\* entries of the tree itself
collectTreeEntries_ChildrenFirst(entries, result, treePath, deep) ==
    LET items == [i \in 1..Len(entries) |->
                     [entries[i] EXCEPT !.path = joinPaths(treePath, entries[i].path)]]
        treeItems == SelectSeq(items, LAMBDA item : item.type = "tree")
    IN  IF deep THEN collectSubTrees(treeItems, 1, result, deep) \o items
        ELSE result \o items

collectTreeEntries(entries, result, treePath, deep) ==
    LET items == [i \in 1..Len(entries) |->
                     [entries[i] EXCEPT !.path = joinPaths(treePath, entries[i].path)]]
        treeItems == SelectSeq(items, LAMBDA item : item.type = "tree")
    IN  IF deep THEN collectSubTrees(treeItems, 1, result \o items, deep)
        ELSE result \o items

\* typeof req.query.recursive !== 'undefined' && req.query.recursive !== ''
RecursiveQueries == {Undefined, <<>>, <<"1">>, <<"0">>}
isRecursive(q) == q # Undefined /\ q # <<>>

\* the tree handler: 404 for an unknown tree, else the collected entries
treeHandler(refOrSha, recursiveQuery) ==
    LET t == resolveTree(refOrSha) IN
    IF ~t.ok THEN [status |-> 404, tree |-> <<>>]
    ELSE [status |-> 200,
          tree |-> collectTreeEntries(trees[t.val], <<>>, <<>>, isRecursive(recursiveQuery))]

TreesInit ==
    /\ ResolverIdle
    /\ GitEmpty
    /\ ArchiveIdle
    /\ hreq = IdleHandler
    /\ LifecycleIdle
    /\ api = NoRequest
    /\ trees \in [TreeOids -> UNION {TreeChoices(t) : t \in TreeOids}]
    /\ \A t \in TreeOids : trees[t] \in TreeChoices(t)

\* a get-tree request arrives
TreeRequest ==
    /\ api.pc \in {"idle", "done"}
    /\ \E refOrSha \in TreeOids \cup {Rep("5", FullShaLen)}, q \in RecursiveQueries :
         api' = [route |-> "trees", pc |-> "received", status |-> 0,
                 refOrSha |-> refOrSha, recursive |-> q, tree |-> <<>>]
    /\ UNCHANGED <<resolverVars, gitVars, call, archiveVars, handlerVars, trees,
                   lifecycleVars>>

\* the tree handler answers it
GetTree ==
    /\ api.route = "trees"
    /\ api.pc = "received"
    /\ LET r == treeHandler(api.refOrSha, api.recursive) IN
         api' = [api EXCEPT !.pc = "done", !.status = r.status, !.tree = r.tree]
    /\ UNCHANGED <<resolverVars, gitVars, call, archiveVars, handlerVars, trees,
                   lifecycleVars>>

TreesNext == TreeRequest \/ GetTree

SpecTrees == TreesInit /\ [][TreesNext]_vars

\* the entries reachable from tree t through at most n levels of sub-trees,
\* each with the names on its way from t
RECURSIVE ReachableEntries(_, _, _)
ReachableEntries(t, names, n) ==
    LET direct == {[names |-> Append(names, trees[t][i].path), type |-> trees[t][i].type,
                    oid |-> trees[t][i].oid] : i \in 1..Len(trees[t])}
    IN  direct \cup
        (IF n = 0 THEN {}
         ELSE UNION {ReachableEntries(e.oid, e.names, n - 1) :
                        e \in {d \in direct : d.type = "tree"}})

\* how often the listing names the entry with this path, type and oid
TimesListed(listing, e) ==
    Cardinality({i \in 1..Len(listing) :
                    /\ listing[i].path = join(e.names, "/")
                    /\ listing[i].type = e.type
                    /\ listing[i].oid = e.oid})

WorkingDirEntries == [p \in Paths |-> IF p \in ignored THEN NoFile ELSE worktree[p]]

\* the files of the tree of commit c
TreeEntries(c) ==
    [p \in Paths |-> IF commits[c].tree[p] = NoOid THEN NoFile
                     ELSE CHOOSE x \in Contents : BlobOid(x) = commits[c].tree[p]]

\* C19: an archive response is built from the working directory and named
\* <owner>-<repo>-SNAPSHOT.<ext> exactly when uncommitted content is served,
\* and then nothing is read from or written to the cache; otherwise it is
\* named with the full oid of the commit whose tree is archived, and only
\* then a file is written to the cache directory
C19_SnapshotNeverCached ==
    /\ \A s \in slots :
          LET r == requests[s]
              name == FileNameOf(r)
          IN  (r.pc = "done" /\ r.resp.status = 200) =>
                  IF r.serveUncommitted
                  THEN /\ name[1] = <<"SNAPSHOT">>
                       /\ r.resp.bytes.entries = WorkingDirEntries
                       /\ ~r.resp.fromCache
                  ELSE /\ Len(name[1]) = FullShaLen
                       /\ name[1] \in DOMAIN commits
                       /\ name[1] = CommitNamedBy(r.ref)
                       /\ r.resp.bytes.entries = TreeEntries(name[1])
    /\ \A f \in DOMAIN cacheDir : f[1] # <<"SNAPSHOT">> /\ f[1] \in DOMAIN commits

\* a request for the checked-out branch was answered with the modified
\* working directory while the cache held the archive of another ref
C19_Witness ==
    \E s \in slots :
        /\ requests[s].pc = "done" /\ requests[s].resp.status = 200
        /\ requests[s].serveUncommitted
        /\ FileNameOf(requests[s])[1] = <<"SNAPSHOT">>
        /\ requests[s].resp.bytes.entries # TreeEntries(CommitNamedBy(requests[s].ref))
        /\ cacheDir # <<>>

(***************************************************************************)
(* resolveBlob and the status of the working directory                     *)
(***************************************************************************)

\* the refs resolveBlob is asked for: the checked-out branch, the branch on
\* the older commit, the older commit by its oid, a name that is no ref
BlobRefs == {Main, <<"x">>, CommitOidOf(1), <<"z">>}

\* a clean checkout of branch "m" on the second of two commits; branch "x"
\* is on the first
BlobsInit ==
    /\ ResolverIdle
    /\ ServerIdle
    /\ bare = FALSE
    /\ \E b1 \in {NoOid, BlobOid("x")}, b2 \in {NoOid, BlobOid("x"), BlobOid("y")} :
         /\ commits = TwoCommits(b1, b2)
         /\ blobStore = {b1, b2} \ {NoOid}
    /\ tagObjects = <<>>
    /\ branches = [b \in BranchNames |->
                     IF b = Main THEN CommitOidOf(2)
                     ELSE IF b = <<"x">> THEN CommitOidOf(1) ELSE NoOid]
    /\ tags = NoTags
    /\ head = [sym |-> TRUE, target |-> Main]
    /\ worktree = [p \in Paths |->
                     IF HeadTreeEntry(p) = NoOid THEN NoFile ELSE ContentOf(HeadTreeEntry(p))]
    /\ index = [p \in Paths |-> HeadTreeEntry(p)]
    /\ ignored \in {{}, Paths}
    /\ call = NoCall

\* a handler calls resolveBlob; the blob of a working directory file is
\* written to the object database on the way
ResolveBlobCall ==
    /\ call = NoCall
    /\ \E ref \in BlobRefs, p \in Paths, includeUncommitted \in BOOLEAN :
         LET steps == resolveBlobSteps(ref, p, includeUncommitted) IN
         /\ call' = [op |-> "resolveBlob", ref |-> ref, path |-> p,
                     includeUncommitted |-> includeUncommitted,
                     status |-> status(p), res |-> resolveBlob(ref, p, includeUncommitted)]
         /\ blobStore' = IF steps.wrote THEN blobStore \cup {BlobOid(worktree[p])}
                         ELSE blobStore
    /\ UNCHANGED <<resolverVars, serverVars, bare, head, branches, tags, commits, tagObjects,
                   worktree, index, ignored>>

BlobsNext == WriteFile \/ RemoveFile \/ GitAdd \/ ResolveBlobCall

SpecBlobs == BlobsInit /\ [][BlobsNext]_vars

\* the name of a status without the "*" that marks unstaged differences
StatusName(st) == IF st # <<>> /\ Head(st) = "*" THEN Tail(st) ELSE st

\* resolveBlob gave the oid, or NotFound when the oid is NoOid
Gives(res, oid) ==
    IF oid = NoOid THEN ~res.ok /\ res.err = "NotFoundError"
    ELSE res.ok /\ res.val = oid

\* the blob at path in the commit the ref resolves to
CommittedBlob(ref, path) == commits[CommitNamedBy(ref)].tree[path]

\* C20: with includeUncommitted, resolveBlob decides by the status of the
\* path: unmodified gives the committed blob oid; absent or deleted gives
\* NotFound; added or ignored with the file missing gives NotFound; every
\* other status gives the oid of the bytes in the work-tree file. Without
\* includeUncommitted it gives the blob at path in the ref's commit
C20_ResolveBlobByStatus ==
    (call.op = "resolveBlob" /\ CommitNamedBy(call.ref) # NoOid) =>
        LET name == StatusName(call.status)
            onDisk == worktree[call.path] # NoFile
        IN  IF ~call.includeUncommitted \/ name = StatusWord.unmodified
            THEN Gives(call.res, CommittedBlob(call.ref, call.path))
            ELSE IF name \in {StatusWord.absent, StatusWord.deleted}
            THEN Gives(call.res, NoOid)
            ELSE IF name \in {StatusWord.added, StatusWord.ignored} /\ ~onDisk
            THEN Gives(call.res, NoOid)
            ELSE onDisk /\ Gives(call.res, BlobOid(worktree[call.path]))

(***************************************************************************)
(* resolveBlob while somebody else writes to the working directory         *)
(***************************************************************************)

\* resolveBlob awaits git.status, pathExists and readFile one after the
\* other; between two of them the working directory can change
Resolving(pc) == call.op = "resolving" /\ call.pc = pc

ExternalWriter ==
    /\ call.op = "resolving"
    /\ \/ \E p \in Paths, c \in Contents :
            /\ worktree[p] # c
            /\ worktree' = [worktree EXCEPT ![p] = c]
            /\ UNCHANGED <<index, blobStore>>
       \/ \E p \in Paths :
            /\ worktree[p] # NoFile
            /\ worktree' = [worktree EXCEPT ![p] = NoFile]
            /\ UNCHANGED <<index, blobStore>>
       \/ \E p \in Paths :
            /\ worktree[p] # NoFile
            /\ index[p] # BlobOid(worktree[p])
            /\ index' = [index EXCEPT ![p] = BlobOid(worktree[p])]
            /\ blobStore' = blobStore \cup {BlobOid(worktree[p])}
            /\ UNCHANGED worktree
    /\ UNCHANGED <<resolverVars, serverVars, bare, head, branches, tags, commits, tagObjects,
                   ignored, call>>

\* resolveBlob(dir, ref, pathName, true) up to its first await on the
\* working directory
ResolveBegin ==
    /\ call = NoCall \/ Resolving("done")
    /\ \E ref \in {Main, <<"x">>, <<"z">>}, p \in Paths :
         LET commitSha == resolveCommit(ref) IN
         call' = [op |-> "resolving", ref |-> ref, path |-> p, commitSha |-> commitSha.val,
                  status |-> <<>>, atStatus |-> NoFile, missing |-> FALSE,
                  pc |-> IF commitSha.ok THEN "status" ELSE "done",
                  res |-> commitSha]
    /\ UNCHANGED <<resolverVars, serverVars, gitVars>>

\* git.status and the branches that need nothing more from the disk
ResolveStatus ==
    /\ Resolving("status")
    /\ LET st == status(call.path)
           seen == [call EXCEPT !.status = st, !.atStatus = worktree[call.path]]
       IN  call' =
             IF EndsWith(st, StatusWord.unmodified)
             THEN [seen EXCEPT !.pc = "done",
                               !.res = readObjectAtPath(call.commitSha, call.path)]
             ELSE IF EndsWith(st, StatusWord.absent) \/ EndsWith(st, StatusWord.deleted)
             THEN [seen EXCEPT !.pc = "done", !.res = NotFoundError]
             ELSE IF EndsWith(st, StatusWord.added)
             THEN [seen EXCEPT !.pc = "exists"]
             ELSE [seen EXCEPT !.pc = "read"]
    /\ UNCHANGED <<resolverVars, serverVars, gitVars>>

\* pathExists, asked for an added file only
ResolveExists ==
    /\ Resolving("exists")
    /\ call' = IF pathExists(call.path) THEN [call EXCEPT !.pc = "read"]
               ELSE [call EXCEPT !.pc = "done", !.res = NotFoundError]
    /\ UNCHANGED <<resolverVars, serverVars, gitVars>>

\* fse.readFile and git.writeBlob, and the catch around them
ResolveRead ==
    /\ Resolving("read")
    /\ IF pathExists(call.path)
       THEN /\ call' = [call EXCEPT !.pc = "done",
                                    !.res = Ok(BlobOid(worktree[call.path]))]
            /\ blobStore' = blobStore \cup {BlobOid(worktree[call.path])}
       ELSE /\ call' = [call EXCEPT !.pc = "done", !.missing = TRUE,
                                    !.res = IF call.status = StatusWord.ignored
                                            THEN NotFoundError
                                            ELSE [ok |-> FALSE, err |-> "ENOENT", val |-> NoOid]]
            /\ UNCHANGED blobStore
    /\ UNCHANGED <<resolverVars, serverVars, bare, head, branches, tags, commits, tagObjects,
                   worktree, index, ignored>>

RaceInit == BlobsInit

RaceNext == ExternalWriter \/ ResolveBegin \/ ResolveStatus \/ ResolveExists \/ ResolveRead

SpecRace == RaceInit /\ [][RaceNext]_vars

\* C21: when the file that git.status saw on disk is removed before
\* resolveBlob reads it, resolveBlob falls back to the committed object:
\* it gives what the commit holds at the path and does not fail with the
\* error of the read
C21_FallsBackToCommitted ==
    (Resolving("done") /\ call.atStatus # NoFile /\ call.missing) =>
        call.res = readObjectAtPath(call.commitSha, call.path)

(***************************************************************************)
(* Responses that are streamed, and the client going away                  *)
(***************************************************************************)

\* the most chunks a producer has to hand over
StreamChunks == 4

\* the chunks a pipe holds before the producer has to wait
HighWaterMark == 2

\* what feeds the response: the git process spawned for a Smart HTTP
\* request, the read stream of a cached archive file, the archiver of a
\* working directory archive
Producers == {"git process", "cache file stream", "archiver"}

Streaming == api.pc = "streaming"

\* the handler wires the producer to the response with pipe(); a service
\* that git-http-backend does not know is passed on as an error
StreamRequest ==
    /\ api.pc = "idle"
    /\ \E producer \in Producers, total \in 1..StreamChunks, known \in BOOLEAN :
         api' = IF producer = "git process" /\ ~known
                THEN [route |-> producer, pc |-> "done", status |-> 500, state |-> "none",
                      client |-> "connected", total |-> total, produced |-> 0, sent |-> 0]
                ELSE [route |-> producer, pc |-> "streaming", status |-> 200,
                      state |-> "running",
                      client |-> "connected", total |-> total, produced |-> 0, sent |-> 0]
    /\ UNCHANGED <<resolverVars, gitVars, call, archiveVars, handlerVars, trees, lifecycleVars>>

\* the producer hands over a chunk, as long as the pipe takes one
Produce ==
    /\ Streaming
    /\ api.state = "running"
    /\ api.produced < api.total
    /\ api.produced - api.sent < HighWaterMark
    /\ api' = [api EXCEPT !.produced = api.produced + 1]
    /\ UNCHANGED <<resolverVars, gitVars, call, archiveVars, handlerVars, trees, lifecycleVars>>

\* the response takes a chunk out of the pipe and sends it
Send ==
    /\ Streaming
    /\ api.client = "connected"
    /\ api.sent < api.produced
    /\ api' = [api EXCEPT !.sent = api.sent + 1]
    /\ UNCHANGED <<resolverVars, gitVars, call, archiveVars, handlerVars, trees, lifecycleVars>>

\* the producer ends by itself: the git process exits once it has written
\* all of its output, a stream closes its files once all of its chunks
\* have been taken
ProducerEnd ==
    /\ Streaming
    /\ api.state = "running"
    /\ api.produced = api.total
    /\ api.route = "git process" \/ api.sent = api.total
    /\ api' = [api EXCEPT !.state = "ended"]
    /\ UNCHANGED <<resolverVars, gitVars, call, archiveVars, handlerVars, trees, lifecycleVars>>

\* the client closes the connection; pipe() takes the response off the
\* producer and does nothing else, and no handler listens for 'close'
ClientDisconnect ==
    /\ Streaming
    /\ api.client = "connected"
    /\ api' = [api EXCEPT !.client = "gone"]
    /\ UNCHANGED <<resolverVars, gitVars, call, archiveVars, handlerVars, trees, lifecycleVars>>

\* the exchange is over: everything was sent, or nobody is left on
\* either side
StreamDone ==
    /\ api.pc = "done" \/ (Streaming /\ api.state = "ended"
                                      /\ (api.sent = api.total \/ api.client = "gone"))
    /\ api' = NoRequest
    /\ UNCHANGED <<resolverVars, gitVars, call, archiveVars, handlerVars, trees, lifecycleVars>>

StreamInit ==
    /\ ResolverIdle
    /\ GitEmpty
    /\ call = NoCall
    /\ ServerIdle

StreamNext ==
    StreamRequest \/ Produce \/ Send \/ ProducerEnd \/ ClientDisconnect \/ StreamDone

\* a producer that can go on does go on
SpecStream ==
    StreamInit /\ [][StreamNext]_vars
    /\ WF_vars(Produce) /\ WF_vars(ProducerEnd) /\ WF_vars(Send) /\ WF_vars(StreamDone)

\* C22: once the client of a streamed response is gone, the producer of the
\* response eventually stops running: the git process is told to terminate,
\* the file and archive streams are closed
C22_DisconnectAbortsProducer ==
    (Streaming /\ api.client = "gone") ~> ~(Streaming /\ api.state = "running")

(***************************************************************************)
(* The subdomain middleware and requests without a Host header             *)
(***************************************************************************)

\* the whole middleware: its result and the error it throws, if any.
\* req.headers.host is undefined for a request without Host header, and
\* host.split then throws a TypeError
subdomainMiddleware(conf, hostHeader, url) ==
    LET enabled == conf.enable /\ Len(conf.baseDomains) > 0 IN
    IF ~enabled THEN [url |-> url, mappedSubDomain |-> FALSE, error |-> ""]
    ELSE IF hostHeader = Undefined
    THEN [url |-> url, mappedSubDomain |-> FALSE, error |-> "TypeError"]
    ELSE [url |-> subdomainHandler(conf, hostHeader, url).url,
          mappedSubDomain |-> subdomainHandler(conf, hostHeader, url).mappedSubDomain,
          error |-> ""]

\* Host headers of HTTP requests; an HTTP/1.0 request need not carry one
AnyHostHeaders == {h \in HostHeaders : Len(h) <= 3} \cup {Undefined}

\* a request arrives, with or without Host header
HostRequest ==
    /\ api.pc \in {"idle", "passed"}
    /\ \E h \in AnyHostHeaders, u \in {<<"/">>, <<"/", "p">>} :
         api' = [route |-> "any", pc |-> "received", status |-> 0, conf |-> api.conf,
                 host |-> h, origUrl |-> u, url |-> u,
                 mappedSubDomain |-> FALSE, error |-> ""]
    /\ UNCHANGED <<resolverVars, gitVars, call, archiveVars, handlerVars, trees,
                   lifecycleVars>>

\* the middleware runs; what it throws reaches the error handling of express
SubdomainPass ==
    /\ api.pc = "received"
    /\ LET r == subdomainMiddleware(api.conf, api.host, api.url) IN
         api' = [api EXCEPT !.pc = "passed", !.url = r.url,
                            !.mappedSubDomain = r.mappedSubDomain,
                            !.error = r.error,
                            !.status = IF r.error = "" THEN 0 ELSE 500]
    /\ UNCHANGED <<resolverVars, gitVars, call, archiveVars, handlerVars, trees,
                   lifecycleVars>>

HostNext == HostRequest \/ SubdomainPass

SpecHost == SubdomainInit /\ [][HostNext]_vars

\* C23: the subdomain middleware never fails: whatever the configuration
\* and the request, a request without Host header included, the request
\* goes on to the next handler and no error is raised
C23_SubdomainNeverFails ==
    api.pc = "passed" => api.error = ""

(***************************************************************************)
(* start() and a port that is taken                                        *)
(***************************************************************************)

\* C24: start() always settles: when a configured port is in use (the one
\* case in which listen() never calls back) the promise is rejected with
\* the startup error; it is never left pending
C24_PortInUseRejects ==
    returned.op = "start" => returned.outcome \in {"ok", "error"}

(***************************************************************************)
(* defaultBranch                                                           *)
(***************************************************************************)

\* a repository with commits, one branch and HEAD at that branch
DefaultInit ==
    /\ ResolverIdle
    /\ ServerIdle
    /\ bare = FALSE
    /\ commits = ThreeCommits
    /\ tagObjects = <<>>
    /\ blobStore = {BlobOid("y")}
    /\ \E b \in {Main, Master, <<"x">>} :
         /\ branches = [n \in BranchNames |-> IF n = b THEN CommitOidOf(3) ELSE NoOid]
         /\ head = [sym |-> TRUE, target |-> b]
    /\ tags = NoTags
    /\ worktree = [p \in Paths |-> NoFile]
    /\ index = [p \in Paths |-> NoOid]
    /\ ignored = {}
    /\ call = NoCall

\* git branch <name>
GitBranch ==
    /\ \E b \in BranchNames :
         /\ branches[b] = NoOid
         /\ branches' = [branches EXCEPT ![b] = resolveRef(HEAD).val]
    /\ call' = NoCall
    /\ UNCHANGED <<resolverVars, serverVars, bare, head, tags, commits, tagObjects, blobStore,
                   worktree, index, ignored>>

\* git branch -D <name>, which git refuses for the branch HEAD is at
GitBranchDelete ==
    /\ \E b \in BranchNames :
         /\ branches[b] # NoOid
         /\ ~(head.sym /\ head.target = b)
         /\ branches' = [branches EXCEPT ![b] = NoOid]
    /\ call' = NoCall
    /\ UNCHANGED <<resolverVars, serverVars, bare, head, tags, commits, tagObjects, blobStore,
                   worktree, index, ignored>>

\* git checkout <branch>, or git checkout --detach
GitCheckout ==
    /\ \/ \E b \in BranchNames :
            /\ branches[b] # NoOid
            /\ head' = [sym |-> TRUE, target |-> b]
       \/ /\ head.sym
          /\ head' = [sym |-> FALSE, target |-> resolveRef(HEAD).val]
    /\ head' # head
    /\ call' = NoCall
    /\ UNCHANGED <<resolverVars, serverVars, bare, branches, tags, commits, tagObjects,
                   blobStore, worktree, index, ignored>>

\* a handler without ref in its request asks for the default branch
DefaultBranchCall ==
    /\ call = NoCall
    /\ call' = [op |-> "defaultBranch", res |-> defaultBranch]
    /\ UNCHANGED <<resolverVars, serverVars, gitVars>>

DefaultNext == GitBranch \/ GitBranchDelete \/ GitCheckout \/ DefaultBranchCall

SpecDefault == DefaultInit /\ [][DefaultNext]_vars

\* the priority of defaultBranch: main, else master, else the branch HEAD
\* is at
DefaultBranchPriority ==
    call.op = "defaultBranch" =>
        /\ Main \in RefsHeads => call.res = Ok(Main)
        /\ (Main \notin RefsHeads /\ Master \in RefsHeads) => call.res = Ok(Master)
        /\ (Main \notin RefsHeads /\ Master \notin RefsHeads /\ head.sym)
              => call.res = Ok(head.target)

\* C25: defaultBranch gives main if there is a branch main, else master if
\* there is a branch master, else the current branch; in every state of the
\* repository, a detached HEAD with neither main nor master included, what
\* it gives is the name of an existing branch
C25_DefaultBranchExists ==
    /\ DefaultBranchPriority
    /\ call.op = "defaultBranch" => (call.res.ok /\ call.res.val \in RefsHeads)

(***************************************************************************)
(* resolveTree over every type of object                                   *)
(***************************************************************************)

\* a second annotated tag, which may point to the first
OuterTagOid == Rep("3", FullShaLen)

\* the entries of the tree object of a commit
entriesOfTree(tree) ==
    IF tree = EmptyTree THEN <<>>
    ELSE << [path |-> CHOOSE p \in Paths : tree[p] # NoOid, type |-> "blob",
             oid |-> tree[CHOOSE p \in Paths : tree[p] # NoOid]] >>

\* what resolveTree is asked for: every object of the repository by its
\* full sha, a sha that names nothing, a branch, a name that is no ref
TreeQueries ==
    { CommitOidOf(1), CommitOidOf(2), RootTree, TagObjectOid, OuterTagOid,
      BlobOid("x"), BlobOid("y"), Rep("5", FullShaLen), Main, <<"z">> }

\* two commits with their trees, one more tree, both blobs, and two
\* annotated tags pointing to a commit, a tree, a blob or a tag
TreeOfInit ==
    /\ ResolverIdle
    /\ ArchiveIdle
    /\ hreq = IdleHandler
    /\ LifecycleIdle
    /\ api = NoRequest
    /\ bare = FALSE
    /\ \E b1 \in {NoOid, BlobOid("x")}, b2 \in {NoOid, BlobOid("x"), BlobOid("y")} :
         /\ commits = TwoCommits(b1, b2)
         /\ trees = (RootTree :> EntriesOf(RootTree)) @@
                    [t \in {TreeOidOf(commits[c].tree) : c \in DOMAIN commits} |->
                        entriesOfTree(CHOOSE tr \in {commits[c].tree : c \in DOMAIN commits} :
                                          TreeOidOf(tr) = t)]
    /\ blobStore = {BlobOid("x"), BlobOid("y")}
    /\ \E inner \in {CommitOidOf(1), RootTree, BlobOid("x")},
          outer \in {CommitOidOf(2), RootTree, TagObjectOid} :
         tagObjects = (TagObjectOid :> [object |-> inner]) @@
                      (OuterTagOid :> [object |-> outer])
    /\ branches = [b \in BranchNames |-> IF b = Main THEN CommitOidOf(2) ELSE NoOid]
    /\ tags = NoTags
    /\ head = [sym |-> TRUE, target |-> Main]
    /\ worktree = [p \in Paths |-> NoFile]
    /\ index = [p \in Paths |-> NoOid]
    /\ ignored = {}
    /\ call = NoCall

\* a handler resolves the tree of its request
ResolveTreeCall ==
    /\ \E x \in TreeQueries :
         /\ call # [op |-> "resolveTree", arg |-> x, res |-> resolveTree(x)]
         /\ call' = [op |-> "resolveTree", arg |-> x, res |-> resolveTree(x)]
    /\ UNCHANGED <<resolverVars, gitVars, serverVars>>

TreeOfNext == ResolveTreeCall

SpecTreeOf == TreeOfInit /\ [][TreeOfNext]_vars

\* the result is the tree object holding the files of commit c
IsTreeOfCommit(res, c) ==
    /\ res.ok
    /\ res.val \in DOMAIN trees
    /\ trees[res.val] = entriesOfTree(commits[c].tree)

\* C26: for a full sha x resolveTree gives a tree whenever it gives
\* anything: x itself when x is a tree, the tree of the commit when x is a
\* commit, and for an annotated tag the tree of the commit the tag points
\* to or the tree the tag points to; for an object of any other type it
\* fails with a type error, for an oid or a ref that names nothing with
\* NotFound
C26_ResolveTreeByType ==
    call.op = "resolveTree" =>
        LET x == call.arg
            res == call.res
            target == tagObjects[x].object
        IN  /\ res.ok => res.val \in DOMAIN trees
            /\ isValidSha(x) =>
                 IF x \in DOMAIN trees THEN res = Ok(x)
                 ELSE IF x \in DOMAIN commits THEN IsTreeOfCommit(res, x)
                 ELSE IF x \in DOMAIN tagObjects /\ target \in DOMAIN commits
                 THEN IsTreeOfCommit(res, target)
                 ELSE IF x \in DOMAIN tagObjects /\ target \in DOMAIN trees
                 THEN res = Ok(target)
                 ELSE IF x \in DOMAIN tagObjects \/ x \in blobStore
                 THEN ~res.ok /\ res.err = "ObjectTypeError"
                 ELSE ~res.ok /\ res.err = "NotFoundError"
            /\ (~isValidSha(x) /\ CommitNamedBy(x) = NoOid) =>
                 (~res.ok /\ res.err = "NotFoundError")

\* resolveTree was given an annotated tag of a commit that holds a file and
\* gave the tree of that commit
C26_Witness ==
    /\ call.op = "resolveTree"
    /\ call.arg = TagObjectOid
    /\ tagObjects[TagObjectOid].object = CommitOidOf(1)
    /\ call.res.ok
    /\ trees[call.res.val] = << [path |-> <<"f">>, type |-> "blob", oid |-> BlobOid("x")] >>

(***************************************************************************)
(* What resolveBlob leaves alone                                           *)
(***************************************************************************)

Inside(e, d) == d.type = "tree" /\ StartsWith(e.path, d.path \o <<"/">>)

RECURSIVE gitJsFilterCommits(_, _, _, _, _, _)
gitJsFilterCommits(cs, path, i, lastSHA, lastCommit, filteredCommits) ==
    IF i > Len(cs) THEN filteredCommits
    ELSE LET commit == cs[i]
             o == readObjectAtPath(commit, path)
         IN  IF o.ok
             THEN IF i = Len(cs) THEN Append(filteredCommits, commit)
                  ELSE IF o.val # lastSHA
                       THEN gitJsFilterCommits(cs, path, i + 1, o.val, commit,
                                IF lastSHA # NoOid THEN Append(filteredCommits, lastCommit)
                                ELSE filteredCommits)
                       ELSE gitJsFilterCommits(cs, path, i + 1, lastSHA, commit,
                                               filteredCommits)
             ELSE Append(filteredCommits, lastCommit)

\* commitLog of lib/git.js, the module the handlers require as './git'
gitJsCommitLog(ref, path) ==
    LET first == gitLog(ref)
        oid == expandOid(ref)
        commitsOfRef == IF first.ok \/ first.err # "NotFoundError" THEN first
                        ELSE IF ~oid.ok THEN oid
                        ELSE gitLog(oid.val)
    IN  IF ~commitsOfRef.ok THEN commitsOfRef
        ELSE IF path # <<>>
             THEN Ok(gitJsFilterCommits(commitsOfRef.val, path, 1, NoOid, NoOid, <<>>))
             ELSE commitsOfRef

\* a list-commits request with a path; the log without path is taken of
\* the same repository
CommitLogsCall ==
    /\ call = NoCall
    /\ \E ref \in LogRefs, path \in Paths :
         call' = [op |-> "commitLogs", ref |-> ref, path |-> path,
                  res |-> commitLog(ref, path),
                  gitJs |-> gitJsCommitLog(ref, path),
                  all |-> commitLog(ref, <<>>)]
    /\ UNCHANGED <<resolverVars, serverVars, gitVars>>

LogsNext == GitCommit \/ CommitLogsCall

SpecLogs == LogInit /\ [][LogsNext]_vars

\* where x stands in the sequence s, 0 when it does not
PositionIn(s, x) ==
    IF \E k \in 1..Len(s) : s[k] = x THEN CHOOSE k \in 1..Len(s) : s[k] = x ELSE 0

\* part is a sub-sequence of whole (which repeats nothing): no null entry,
\* nothing repeated, the order kept, and every commit holds the path
IsLogOfPath(part, whole, path) ==
    /\ \A k \in 1..Len(part) :
         /\ part[k] # NoOid
         /\ PositionIn(whole, part[k]) > 0
         /\ BlobIn(part[k], path) # NoOid
    /\ \A k, l \in 1..Len(part) :
         k < l => PositionIn(whole, part[k]) < PositionIn(whole, part[l])

\* C29: for every ref and path the list commitLog gives for the path is a
\* sub-sequence of the list it gives without path (same order, no commit
\* twice, no null entry), and every commit of it holds a blob at the path
C29_LogByPathIsSubsequence ==
    call.op = "commitLogs" =>
        /\ call.res.ok => (call.all.ok /\ IsLogOfPath(call.res.val, call.all.val, call.path))
        /\ call.gitJs.ok =>
              (call.all.ok /\ IsLogOfPath(call.gitJs.val, call.all.val, call.path))

(***************************************************************************)
(* isCheckedOut when HEAD or the ref cannot be resolved                    *)
(***************************************************************************)

\* resolveBlob reads the working directory (git.status, readFile) only
\* past its first return, which is taken unless includeUncommitted is set
readsWorkTree(ref, includeUncommitted) ==
    includeUncommitted /\ resolveCommit(ref).ok

\* a raw request decides what to serve: isCheckedOut, then resolveBlob
ServeDecision ==
    /\ call = NoCall
    /\ \E ref \in RefInputs \cup {Undefined}, p \in Paths :
         call' = [op |-> "serve", arg |-> ref, path |-> p,
                  res |-> isCheckedOut(ref),
                  reads |-> readsWorkTree(ref, isCheckedOut(ref)),
                  status |-> rawHandler(ref, p).status]
    /\ UNCHANGED <<resolverVars, serverVars, gitVars>>

ServeNext == ServeDecision

SpecServe == RefsInit /\ [][ServeNext]_vars

\* HEAD or the name cannot be resolved: no repository to look into, HEAD at
\* a branch that does not exist, or a name that is neither a ref nor a full
\* sha
Unresolvable(name) ==
    \/ bare
    \/ HeadOid = NoOid
    \/ (StoredOid(name) = NoOid /\ ~isValidSha(name))

\* C30: isCheckedOut never fails: it answers true or false, and false when
\* HEAD or the ref cannot be resolved, so that the request is served from
\* committed content and the working directory is not read
C30_IsCheckedOutNeverFails ==
    call.op = "serve" =>
        /\ call.res \in BOOLEAN
        /\ Unresolvable(call.arg) => (call.res = FALSE /\ ~call.reads)

\* a request named a ref that does not exist while HEAD was at a branch
\* without commits, and was answered from committed content
C30_Witness ==
    /\ call.op = "serve"
    /\ ~bare
    /\ HeadOid = NoOid
    /\ call.arg = <<"z">>
    /\ call.res = FALSE
    /\ call.status = 404


====
